---------------------------- MODULE Spec2Model ----------------------------
(***************************************************************************)
(* A model of doc-agent's static endpoint-extraction engine:               *)
(*   src/src/analyzers/detector.py        detect_framework, get_analyzer   *)
(*   src/src/analyzers/base.py            BaseAnalyzer and the data model  *)
(*   src/src/analyzers/fastapi_analyzer.py  the single-pass extractor      *)
(*   src/src/analyzers/django_analyzer.py   the multi-pass extractor       *)
(*                                                                         *)
(* A project is a root path and the sequence of its *.py files in the      *)
(* order the directory walk (Path.glob / Path.rglob) yields them.  A file  *)
(* is seen by the code in two ways, and the model keeps both: its text     *)
(* (the detector's import patterns and the routing-table patterns are      *)
(* regular expressions over the text) and its syntax tree (ast.parse,      *)
(* which fails for a file that is not valid Python).  Python strings are   *)
(* TLA+ strings; the substring tests, str.upper, str.title and the regular *)
(* expressions are computed character by character.                        *)
(***************************************************************************)
EXTENDS Integers, Sequences, FiniteSets, TLC

VARIABLES
    root,          \* the project root, Path(path).resolve() of the CLI
    tree,          \* paths of the *.py files under root, in directory-walk order
    detected,      \* what detect_framework returned, None before it ran
    framework,     \* the tag last handed to get_analyzer, None before
    error,         \* the exception get_analyzer raised, None if none
    analyzer,      \* class of the analyzer instance, None if there is none
    project_path,  \* self.project_path of the instance
    endpoints,     \* self.endpoints of the instance
    url_patterns,  \* self.url_patterns (DjangoAnalyzer)
    viewsets,      \* self.viewsets     (DjangoAnalyzer), a dict keyed by name
    serializers,   \* self.serializers  (DjangoAnalyzer), a dict keyed by name
    calls,         \* analyze() calls made on the instance so far
    lastTree,      \* the tree as it was at the instance's last analyze()
    cli,           \* the CLI command that runs: its options and how it ended
    review         \* a call of DocumentationReviewer.review: its position and result

vars == <<root, tree, detected, framework, error, analyzer, project_path, endpoints,
          url_patterns, viewsets, serializers, calls, lastTree, cli, review>>

\* Python's None where a string is expected; no source text is spelled so.
None == "<None>"

\* An exception leaving a call, where the call would have returned a string.
Raised == "<raised>"

---------------------------------------------------------------------------
(* Strings *)

Min(a, b) == IF a <= b THEN a ELSE b

Char(s, i) == SubSeq(s, i, i)

\* s[i:] of Python, with i counted from 1.
From(s, i) == SubSeq(s, i, Len(s))

\* s.startswith(p, i - 1)
StartsWithAt(s, i, p) ==
    /\ i >= 1
    /\ i + Len(p) - 1 <= Len(s)
    /\ SubSeq(s, i, i + Len(p) - 1) = p

StartsWith(s, p) == StartsWithAt(s, 1, p)

\* p in s
Contains(s, p) == \E i \in 1..(Len(s) - Len(p) + 1) : StartsWithAt(s, i, p)

LowerLetters == "abcdefghijklmnopqrstuvwxyz"
UpperLetters == "ABCDEFGHIJKLMNOPQRSTUVWXYZ"
DigitChars == "0123456789"

IsLower(c) == Len(c) = 1 /\ Contains(LowerLetters, c)
IsUpper(c) == Len(c) = 1 /\ Contains(UpperLetters, c)
IsLetter(c) == IsLower(c) \/ IsUpper(c)
\* \w of the re module, for the ASCII text of the model
IsWord(c) == IsLetter(c) \/ (Len(c) = 1 /\ Contains(DigitChars, c)) \/ c = "_"
\* \s of the re module
IsSpace(c) == c \in {" ", "\t", "\n", "\r"}

IndexIn(alphabet, c) == CHOOSE i \in 1..Len(alphabet) : Char(alphabet, i) = c

UpperChar(c) == IF IsLower(c) THEN Char(UpperLetters, IndexIn(LowerLetters, c)) ELSE c
LowerChar(c) == IF IsUpper(c) THEN Char(LowerLetters, IndexIn(UpperLetters, c)) ELSE c

\* str.upper
RECURSIVE Upper(_)
Upper(s) == IF s = "" THEN "" ELSE UpperChar(Char(s, 1)) \o Upper(From(s, 2))

\* str.title: a letter that follows a letter is lowered, any other letter raised
RECURSIVE TitleFrom(_, _)
TitleFrom(s, afterLetter) ==
    IF s = "" THEN ""
    ELSE LET c == Char(s, 1)
         IN (IF afterLetter THEN LowerChar(c) ELSE UpperChar(c))
                \o TitleFrom(From(s, 2), IsLetter(c))

Title(s) == TitleFrom(s, FALSE)

\* The index of the first character of s at or after i that is no white space.
RECURSIVE SkipSpace(_, _)
SkipSpace(s, i) ==
    IF i <= Len(s) /\ IsSpace(Char(s, i)) THEN SkipSpace(s, i + 1) ELSE i

\* The index after the longest run of \w characters of s that starts at i.
RECURSIVE SkipWord(_, _)
SkipWord(s, i) ==
    IF i <= Len(s) /\ IsWord(Char(s, i)) THEN SkipWord(s, i + 1) ELSE i

\* PurePath.parts of a relative path
RECURSIVE Parts(_)
Parts(p) ==
    IF ~Contains(p, "/") THEN <<p>>
    ELSE LET i == CHOOSE k \in 1..Len(p) :
                    Char(p, k) = "/" /\ \A j \in 1..(k - 1) : Char(p, j) # "/"
         IN <<SubSeq(p, 1, i - 1)>> \o Parts(From(p, i + 1))

\* PurePath.name
BaseName(p) == Parts(p)[Len(Parts(p))]

\* str(project_path / rel): the path the directory walk yields for a file
FullPath(r, rel) == r \o "/" \o rel

---------------------------------------------------------------------------
(* Source files *)

\* One *.py file of the project.  path is relative to the root; readable is
\* whether open()/read_text() succeed (they raise for a file that cannot be
\* opened or decoded); parses is whether ast.parse accepts the text; body is
\* the module body ast.parse returns.
File(path, readable, parses, text, body) ==
    [path |-> path, readable |-> readable, parses |-> parses,
     text |-> text, body |-> body]

\* Path.read_text(encoding="utf-8")
read_text(f) == IF f.readable THEN f.text ELSE Raised

---------------------------------------------------------------------------
(* detector.py *)

\* python_files = list(project_path.glob("**/*.py"))[:20]
SampleSize == 20

Sample(t) == SubSeq(t, 1, Min(SampleSize, Len(t)))

\* The positions where ^ matches under re.MULTILINE.
LineStarts(s) == {i \in 1..Len(s) : i = 1 \/ Char(s, i - 1) = "\n"}

\* re.compile(r'^\s*from M|^\s*import M', re.MULTILINE).search(s)
import_pattern_search(s, module) ==
    \E i \in LineStarts(s) :
        LET j == SkipSpace(s, i)
        IN \/ StartsWithAt(s, j, "from " \o module)
           \/ StartsWithAt(s, j, "import " \o module)

\* (project_path / "manage.py").exists()
manage_py_exists(t) == \E i \in 1..Len(t) : t[i].path = "manage.py"

settings_patterns == <<"**/settings.py", "**/settings/*.py">>

\* Whether the relative path of a *.py file matches one of settings_patterns.
GlobMatch(pattern, path) ==
    LET parts == Parts(path)
    IN IF pattern = "**/settings.py" THEN parts[Len(parts)] = "settings.py"
       ELSE Len(parts) >= 2 /\ parts[Len(parts) - 1] = "settings"

\* list(project_path.glob(pattern))
Glob(t, pattern) == SelectSeq(t, LAMBDA f : GlobMatch(pattern, f.path))

\* A sampling loop without the try: a file that cannot be read ends it with
\* the exception.
RECURSIVE sample_has_import_unguarded(_, _)
sample_has_import_unguarded(files, module) ==
    IF files = <<>> THEN "False"
    ELSE IF read_text(Head(files)) = Raised THEN Raised
    ELSE IF import_pattern_search(read_text(Head(files)), module) THEN "True"
    ELSE sample_has_import_unguarded(Tail(files), module)

\* The sampling loop of _is_django_project and _is_fastapi_project: a file
\* that cannot be read is passed over (except Exception: continue).
RECURSIVE sample_has_import(_, _)
sample_has_import(files, module) ==
    IF files = <<>> THEN "False"
    ELSE LET content == read_text(Head(files))
         IN IF content = Raised THEN sample_has_import(Tail(files), module)
            ELSE IF import_pattern_search(content, module) THEN "True"
            ELSE sample_has_import(Tail(files), module)

is_django_project(t) ==
    IF manage_py_exists(t) THEN "True"
    ELSE IF \E k \in 1..Len(settings_patterns) :
                Glob(t, settings_patterns[k]) # <<>> THEN "True"
    ELSE sample_has_import(Sample(t), "django")

is_fastapi_project(t) == sample_has_import(Sample(t), "fastapi")

\* A detector that answers with a tag of its own when neither check matches.
UndecidedFramework == "unknown"

\* What detect_framework returns when neither check matches.
DefaultFramework == "fastapi"

\* A detector that asks for the FastAPI import first.
detect_framework_fastapi_first(t) ==
    IF is_fastapi_project(t) = "True" THEN "fastapi"
    ELSE IF is_django_project(t) = "True" THEN "django"
    ELSE DefaultFramework

detect_framework(t) ==
    LET dj == is_django_project(t)
    IN IF dj = Raised THEN Raised
       ELSE IF dj = "True" THEN "django"
       ELSE LET fa == is_fastapi_project(t)
            IN IF fa = Raised THEN Raised
               ELSE IF fa = "True" THEN "fastapi"
               ELSE DefaultFramework

\* A mapping that ignores the case of the tag.
analyzer_class_any_case(tag) ==
    IF Upper(tag) = "FASTAPI" THEN "FastAPIAnalyzer"
    ELSE IF Upper(tag) = "DJANGO" THEN "DjangoAnalyzer"
    ELSE Raised

\* The class get_analyzer instantiates for a tag; for any other tag it raises
\* ValueError.
analyzer_class(tag) ==
    IF tag = "fastapi" THEN "FastAPIAnalyzer"
    ELSE IF tag = "django" THEN "DjangoAnalyzer"
    ELSE Raised

\* get_analyzer(framework, project_path): BaseAnalyzer.__init__ and
\* DjangoAnalyzer.__init__ set the fields of the new instance.
get_analyzer(tag, path) ==
    IF analyzer_class(tag) # Raised THEN
        /\ analyzer' = analyzer_class(tag)
        /\ project_path' = path
        /\ endpoints' = <<>>
        /\ url_patterns' = <<>>
        /\ viewsets' = <<>>
        /\ serializers' = <<>>
        /\ error' = None
    ELSE
        /\ error' = "ValueError"
        /\ UNCHANGED <<analyzer, project_path, endpoints, url_patterns,
                       viewsets, serializers>>

\* The tags a caller may pass with --framework.
Tags == {"fastapi", "django", "unknown", "", "FastAPI", "Django", "flask"}

\* main.py: analyzer = get_analyzer(framework, str(project_path)), with the
\* tag given on the command line or, when none is given, the detected one.
GetAnalyzer ==
    /\ analyzer = None
    /\ error = None
    /\ \E tag \in (IF detected = None THEN Tags ELSE {detected}) :
        /\ framework' = tag
        /\ get_analyzer(tag, root)
    /\ calls' = 0
    /\ UNCHANGED <<root, tree, detected, lastTree, cli, review>>

---------------------------------------------------------------------------
(* The syntax trees ast.parse returns *)

\* Expression nodes.  name is Name.id or Attribute.attr; const is the Python
\* type of a Constant's value ("str", "int", "bool", "NoneType"), s and n its
\* string or integer value; sub are the child expressions (Attribute: the
\* value; Subscript: value and slice; Tuple, List: the elements; Call: the
\* function, then the positional arguments); kw are a Call's keywords.
Expr(type, name, const, str, num, sub, kw) ==
    [type |-> type, name |-> name, const |-> const, s |-> str, n |-> num,
     sub |-> sub, kw |-> kw]

Name(id) == Expr("Name", id, "", "", 0, <<>>, <<>>)
Attribute(value, attr) == Expr("Attribute", attr, "", "", 0, <<value>>, <<>>)
Str(v) == Expr("Constant", "", "str", v, 0, <<>>, <<>>)
Num(v) == Expr("Constant", "", "int", "", v, <<>>, <<>>)
Bool(v) == Expr("Constant", "", "bool", "", IF v THEN 1 ELSE 0, <<>>, <<>>)
NoneConst == Expr("Constant", "", "NoneType", "", 0, <<>>, <<>>)
Subscript(value, slice) == Expr("Subscript", "", "", "", 0, <<value, slice>>, <<>>)
Tuple(elts) == Expr("Tuple", "", "", "", 0, elts, <<>>)
List(elts) == Expr("List", "", "", "", 0, elts, <<>>)
BinOr(left, right) == Expr("BinOp", "|", "", "", 0, <<left, right>>, <<>>)
keyword(arg, value) == [arg |-> arg, value |-> value]
Call(func, args, keywords) == Expr("Call", "", "", "", 0, <<func>> \o args, keywords)
\* An optional expression that is absent (annotation, returns: None)
NoExpr == Expr("None", "", "", "", 0, <<>>, <<>>)

\* bool(value) of a Constant's value
Truthy(e) ==
    IF e.const = "str" THEN e.s # ""
    ELSE IF e.const = "NoneType" THEN FALSE
    ELSE e.n # 0

\* str(value) of a Constant's value
str_value(e) ==
    IF e.const = "str" THEN e.s
    ELSE IF e.const = "int" THEN ToString(e.n)
    ELSE IF e.const = "bool" THEN (IF e.n = 1 THEN "True" ELSE "False")
    ELSE "None"

RECURSIVE unparse(_)
RECURSIVE unparse_list(_)
\* ", ".join(unparse(e) for e in es)
unparse_list(es) ==
    IF es = <<>> THEN ""
    ELSE IF Len(es) = 1 THEN unparse(es[1])
    ELSE unparse(es[1]) \o ", " \o unparse_list(Tail(es))

\* ast.unparse of an expression
unparse(e) ==
    IF e.type = "Name" THEN e.name
    ELSE IF e.type = "Attribute" THEN unparse(e.sub[1]) \o "." \o e.name
    ELSE IF e.type = "Constant" THEN
        (IF e.const = "str" THEN "'" \o e.s \o "'" ELSE str_value(e))
    ELSE IF e.type = "Subscript" THEN
        unparse(e.sub[1]) \o "[" \o unparse(e.sub[2]) \o "]"
    ELSE IF e.type = "Tuple" THEN unparse_list(e.sub)
    ELSE IF e.type = "List" THEN "[" \o unparse_list(e.sub) \o "]"
    ELSE IF e.type = "BinOp" THEN
        unparse(e.sub[1]) \o " " \o e.name \o " " \o unparse(e.sub[2])
    ELSE IF e.type = "Call" THEN
        unparse(e.sub[1]) \o "(" \o unparse_list(Tail(e.sub)) \o ")"
    ELSE ""

\* Statement nodes.  doc is ast.get_docstring(node), None when the body does
\* not start with a string; body holds the nested statements.
Stmt(type, name, lineno) ==
    [type |-> type, name |-> name, lineno |-> lineno, bases |-> <<>>,
     decorator_list |-> <<>>, args |-> <<>>, defaults |-> <<>>,
     returns |-> NoExpr, doc |-> None, targets |-> <<>>, value |-> NoExpr,
     body |-> <<>>]

ClassDef(name, lineno, bases, doc, body) ==
    [Stmt("ClassDef", name, lineno) EXCEPT !.bases = bases, !.doc = doc, !.body = body]

\* args are func.args.args, defaults func.args.defaults
FunctionDef(name, lineno, decorators, args, defaults, returns, doc) ==
    [Stmt("FunctionDef", name, lineno) EXCEPT
        !.decorator_list = decorators, !.args = args, !.defaults = defaults,
        !.returns = returns, !.doc = doc]

AsyncFunctionDef(name, lineno, decorators, args, defaults, returns, doc) ==
    [FunctionDef(name, lineno, decorators, args, defaults, returns, doc)
        EXCEPT !.type = "AsyncFunctionDef"]

\* def name(self, request): a method without decorators or annotations
Method(name, lineno) ==
    FunctionDef(name, lineno, <<>>,
                <<[arg |-> "self", annotation |-> NoExpr],
                  [arg |-> "request", annotation |-> NoExpr]>>,
                <<>>, NoExpr, None)

arg(name, annotation) == [arg |-> name, annotation |-> annotation]

Assign(lineno, targets, value) ==
    [Stmt("Assign", "", lineno) EXCEPT !.targets = targets, !.value = value]

AnnAssign(lineno, target, value) ==
    [Stmt("AnnAssign", "", lineno) EXCEPT !.targets = <<target>>, !.value = value]

\* A compound statement (if, with, for) and the statements nested in it
Block(lineno, body) == [Stmt("If", "", lineno) EXCEPT !.body = body]

RECURSIVE Children(_)
Children(level) ==
    IF level = <<>> THEN <<>> ELSE Head(level).body \o Children(Tail(level))

\* The statement nodes ast.walk yields, in its order (breadth first).
RECURSIVE walk(_)
walk(level) == IF level = <<>> THEN <<>> ELSE level \o walk(Children(level))

\* ast.parse(content) of a file whose text was read
ast_parse(f) == IF f.parses THEN f.body ELSE Raised

---------------------------------------------------------------------------
(* base.py *)

EndpointParameter(name, param_type, data_type, required, default) ==
    [name |-> name, param_type |-> param_type, data_type |-> data_type,
     required |-> required, default |-> default, description |-> None]

\* str.strip
RECURSIVE lstrip(_)
lstrip(s) == IF s # "" /\ IsSpace(Char(s, 1)) THEN lstrip(From(s, 2)) ELSE s
RECURSIVE rstrip(_)
rstrip(s) ==
    IF s # "" /\ IsSpace(Char(s, Len(s))) THEN rstrip(SubSeq(s, 1, Len(s) - 1)) ELSE s
strip(s) == lstrip(rstrip(s))

\* BaseAnalyzer._parse_docstring: <<summary, description>>
parse_docstring(docstring) ==
    IF docstring = None \/ docstring = "" THEN <<None, None>>
    ELSE LET t == strip(docstring)
         IN IF ~Contains(t, "\n") THEN <<t, None>>
            ELSE LET i == CHOOSE k \in 1..Len(t) :
                            Char(t, k) = "\n" /\ \A j \in 1..(k - 1) : Char(t, j) # "\n"
                 IN <<SubSeq(t, 1, i - 1), strip(From(t, i + 1))>>

skip_patterns ==
    <<"__pycache__", "venv", "env", ".venv", ".git", "test_", "tests", "migrations">>

\* BaseAnalyzer._should_skip_file, on str(file_path)
should_skip_file(file_path) ==
    \E k \in 1..Len(skip_patterns) : Contains(file_path, skip_patterns[k])


---------------------------------------------------------------------------
(* django_analyzer.py *)

\* d[k] = v of a dict
Put(d, k, v) == [x \in (DOMAIN d) \cup {k} |-> IF x = k THEN v ELSE d[x]]

\* d.get(k, default)
Get(d, k, default) == IF k \in DOMAIN d THEN d[k] ELSE default

\* [e.value for e in elts if isinstance(e, ast.Constant)]; the list literals
\* of the modelled sources hold string constants
constant_values(elts) ==
    LET cs == SelectSeq(elts, LAMBDA e : e.type = "Constant")
    IN [i \in 1..Len(cs) |-> cs[i].s]

is_serializer_class(node) ==
    \E k \in 1..Len(node.bases) : Contains(unparse(node.bases[k]), "Serializer")

RECURSIVE extract_serializer_fields(_)
extract_serializer_fields(body) ==
    IF body = <<>> THEN <<>>
    ELSE LET item == Head(body)
             names == SelectSeq(item.targets, LAMBDA t : t.type = "Name")
         IN (IF item.type \in {"Assign", "AnnAssign"}
             THEN [i \in 1..Len(names) |-> names[i].name]
             ELSE <<>>) \o extract_serializer_fields(Tail(body))

RECURSIVE record_serializers(_, _, _)
record_serializers(sers, nodes, file) ==
    IF nodes = <<>> THEN sers
    ELSE LET node == Head(nodes)
         IN record_serializers(
                IF node.type = "ClassDef" /\ is_serializer_class(node)
                THEN Put(sers, node.name,
                         [fields |-> extract_serializer_fields(node.body),
                          file |-> file])
                ELSE sers,
                Tail(nodes), file)

\* _extract_serializers: open, read and ast.parse are inside the try, and an
\* exception leaves self.serializers as it was
extract_serializers(sers, f) ==
    IF read_text(f) = Raised THEN sers
    ELSE IF ast_parse(f) = Raised THEN sers
    ELSE record_serializers(sers, walk(ast_parse(f)), f.path)

\* _get_view_type: the first base that names a view class decides
RECURSIVE get_view_type(_)
get_view_type(bases) ==
    IF bases = <<>> THEN None
    ELSE LET base_name == unparse(Head(bases))
         IN IF Contains(base_name, "ViewSet") THEN "viewset"
            ELSE IF Contains(base_name, "APIView") \/ Contains(base_name, "GenericAPIView")
                 THEN "apiview"
            ELSE get_view_type(Tail(bases))

RECURSIVE get_serializer_class(_)
get_serializer_class(body) ==
    IF body = <<>> THEN None
    ELSE LET item == Head(body)
         IN IF /\ item.type = "Assign"
               /\ \E k \in 1..Len(item.targets) :
                    item.targets[k].type = "Name" /\ item.targets[k].name = "serializer_class"
               /\ item.value.type = "Name"
            THEN item.value.name
            ELSE get_serializer_class(Tail(body))

standard_actions == <<"list", "retrieve", "create", "update", "partial_update", "destroy">>

InSeq(x, q) == \E k \in 1..Len(q) : q[k] = x

\* _extract_viewset_actions: one entry per FunctionDef of the class body that
\* is named as a standard action, in body order
extract_viewset_actions(body) ==
    LET found == SelectSeq(body, LAMBDA item :
                    item.type = "FunctionDef" /\ InSeq(item.name, standard_actions))
    IN [i \in 1..Len(found) |-> found[i].name]

is_action_decorator(decorator) ==
    IF decorator.type = "Call" /\ decorator.sub[1].type = "Name"
    THEN decorator.sub[1].name = "action"
    ELSE IF decorator.type = "Name" THEN decorator.name = "action"
    ELSE FALSE

RECURSIVE action_keywords(_, _, _)
\* the loop over decorator.keywords of _parse_action_decorator
action_keywords(kws, methods, detail) ==
    IF kws = <<>> THEN [methods |-> methods, detail |-> detail]
    ELSE LET kw == Head(kws)
         IN IF kw.arg = "methods" /\ kw.value.type = "List"
            THEN action_keywords(Tail(kws), constant_values(kw.value.sub), detail)
            ELSE IF kw.arg = "detail" /\ kw.value.type = "Constant"
            THEN action_keywords(Tail(kws), methods, Truthy(kw.value))
            ELSE action_keywords(Tail(kws), methods, detail)

\* _parse_action_decorator, for a decorator that is a Call
parse_action_decorator(decorator, func) ==
    LET k == action_keywords(decorator.kw, <<"get">>, FALSE)
    IN [name |-> func.name, methods |-> k.methods, detail |-> k.detail,
        docstring |-> func.doc, line |-> func.lineno]

RECURSIVE action_decorators(_, _)
action_decorators(decorators, func) ==
    IF decorators = <<>> THEN <<>>
    ELSE (IF is_action_decorator(Head(decorators)) /\ Head(decorators).type = "Call"
          THEN <<parse_action_decorator(Head(decorators), func)>>
          ELSE <<>>) \o action_decorators(Tail(decorators), func)

RECURSIVE extract_custom_actions(_)
extract_custom_actions(body) ==
    IF body = <<>> THEN <<>>
    ELSE (IF Head(body).type = "FunctionDef"
          THEN action_decorators(Head(body).decorator_list, Head(body))
          ELSE <<>>) \o extract_custom_actions(Tail(body))

\* the record _extract_viewset stores
viewset_info(node, file) ==
    [name |-> node.name, file |-> file, line |-> node.lineno,
     serializer |-> get_serializer_class(node.body), queryset |-> None,
     actions |-> extract_viewset_actions(node.body),
     custom_actions |-> extract_custom_actions(node.body),
     docstring |-> node.doc]

http_methods == <<"get", "post", "put", "patch", "delete", "head", "options">>

extract_apiview_methods(body) ==
    LET found == SelectSeq(body, LAMBDA item :
                    item.type = "FunctionDef" /\ InSeq(item.name, http_methods))
    IN [i \in 1..Len(found) |->
            [method |-> Upper(found[i].name), docstring |-> found[i].doc,
             line |-> found[i].lineno]]

\* the record _extract_apiview stores
apiview_info(node, file) ==
    [name |-> node.name, file |-> file, line |-> node.lineno,
     methods |-> extract_apiview_methods(node.body), docstring |-> node.doc]

is_api_view(decorator) ==
    \/ decorator.type = "Call" /\ decorator.sub[1].type = "Name"
                               /\ decorator.sub[1].name = "api_view"
    \/ decorator.type = "Name" /\ decorator.name = "api_view"

has_api_view_decorator(node) ==
    \E k \in 1..Len(node.decorator_list) : is_api_view(node.decorator_list[k])

\* _parse_api_view_decorator: the first @api_view(...) call whose first
\* argument is a list gives the methods
RECURSIVE parse_api_view_decorator(_)
parse_api_view_decorator(decorators) ==
    IF decorators = <<>> THEN <<>>
    ELSE LET d == Head(decorators)
         IN IF /\ d.type = "Call" /\ d.sub[1].type = "Name" /\ d.sub[1].name = "api_view"
               /\ Len(d.sub) >= 2 /\ d.sub[2].type = "List"
            THEN constant_values(d.sub[2].sub)
            ELSE parse_api_view_decorator(Tail(decorators))

\* the record _extract_function_based_view stores
fbv_info(node, file) ==
    LET parsed == parse_api_view_decorator(node.decorator_list)
        methods == IF parsed = <<>> THEN <<"GET">> ELSE parsed
    IN [name |-> node.name, file |-> file, line |-> node.lineno,
        methods |-> [i \in 1..Len(methods) |->
                        [method |-> Upper(methods[i]), docstring |-> node.doc,
                         line |-> node.lineno]],
        docstring |-> node.doc]

\* A recording in which the first record of a name is kept.
RECURSIVE record_views_first_kept(_, _, _)
record_views_first_kept(views, nodes, file) ==
    IF nodes = <<>> THEN views
    ELSE LET node == Head(nodes)
             view_type == IF node.type = "ClassDef" THEN get_view_type(node.bases) ELSE None
         IN record_views_first_kept(
                IF node.name \in DOMAIN views THEN views
                ELSE IF view_type = "viewset" THEN Put(views, node.name, viewset_info(node, file))
                ELSE IF view_type = "apiview" THEN Put(views, node.name, apiview_info(node, file))
                ELSE IF node.type = "FunctionDef" /\ has_api_view_decorator(node)
                     THEN Put(views, node.name, fbv_info(node, file))
                ELSE views,
                Tail(nodes), file)

RECURSIVE record_views(_, _, _)
\* the loop over ast.walk(tree) of _extract_views
record_views(views, nodes, file) ==
    IF nodes = <<>> THEN views
    ELSE LET node == Head(nodes)
             view_type == IF node.type = "ClassDef" THEN get_view_type(node.bases) ELSE None
         IN record_views(
                IF view_type = "viewset" THEN Put(views, node.name, viewset_info(node, file))
                ELSE IF view_type = "apiview" THEN Put(views, node.name, apiview_info(node, file))
                ELSE IF node.type = "FunctionDef" /\ has_api_view_decorator(node)
                     THEN Put(views, node.name, fbv_info(node, file))
                ELSE views,
                Tail(nodes), file)

\* An extraction in which a file that cannot be read or parsed costs the
\* records of the files before it.
extract_views_losing(views, f) ==
    IF read_text(f) = Raised THEN <<>>
    ELSE IF ast_parse(f) = Raised THEN <<>>
    ELSE record_views(views, walk(ast_parse(f)), f.path)

\* _extract_views: an exception in open, read or ast.parse is caught and
\* leaves self.viewsets as it was
extract_views(views, f) ==
    IF read_text(f) = Raised THEN views
    ELSE IF ast_parse(f) = Raised THEN views
    ELSE record_views(views, walk(ast_parse(f)), f.path)

IsQuote(c) == c \in {"'", "\""}

\* A regular-expression match: its start, its two groups and the index
\* after its last character; ok is FALSE when there is no match.
Match(start, g1, g2, end) == [ok |-> TRUE, start |-> start, g1 |-> g1, g2 |-> g2, end |-> end]
NoMatch == [ok |-> FALSE, start |-> 0, g1 |-> "", g2 |-> "", end |-> 0]

\* The index of the first quote of s at or after i (Len(s) + 1 if none).
RECURSIVE SkipNonQuote(_, _)
SkipNonQuote(s, i) ==
    IF i <= Len(s) /\ ~IsQuote(Char(s, i)) THEN SkipNonQuote(s, i + 1) ELSE i

\* (\w+) at w, ending before e
router_target(s, i, a, e, w, end) ==
    IF e > a /\ e <= Len(s) /\ StartsWithAt(s, e + 1, ",") /\ end > w
    THEN Match(i, SubSeq(s, a, e - 1), SubSeq(s, w, end - 1), end)
    ELSE NoMatch

\* (?:views\.)? at m: taken when a word follows it
router_qualifier(s, i, a, e, m) ==
    IF StartsWithAt(s, m, "views.") /\ SkipWord(s, m + 6) > m + 6
    THEN router_target(s, i, a, e, m + 6, SkipWord(s, m + 6))
    ELSE router_target(s, i, a, e, m, SkipWord(s, m))

\* ([^'\"]+)['\"],\s* from the opening quote at q
router_prefix(s, i, q, e) ==
    IF q <= Len(s) /\ IsQuote(Char(s, q))
    THEN router_qualifier(s, i, q + 1, e, SkipSpace(s, e + 2))
    ELSE NoMatch

\* router_pattern matched at position i of s:
\*   router\.register\(r?['\"]([^'\"]+)['\"],\s*(?:views\.)?(\w+)
router_pattern_at(s, i) ==
    IF ~StartsWithAt(s, i, "router.register(") THEN NoMatch
    ELSE IF StartsWithAt(s, i + 16, "r")
         THEN router_prefix(s, i, i + 17, SkipNonQuote(s, i + 18))
         ELSE router_prefix(s, i, i + 16, SkipNonQuote(s, i + 17))

\* (\w+)(?:\.as_view\(\))? with the word s[b..e-1]
target_word(s, b, e) ==
    IF e > b
    THEN Match(b, "", SubSeq(s, b, e - 1),
               IF StartsWithAt(s, e, ".as_view()") THEN e + 10 ELSE e)
    ELSE NoMatch

\* (?:\w+\.)? with the word s[m..w-1]: the qualifier is taken whenever a dot
\* and a word follow it
target_qualifier(s, m, w) ==
    IF w > m /\ StartsWithAt(s, w, ".") /\ SkipWord(s, w + 1) > w + 1
    THEN target_word(s, w + 1, SkipWord(s, w + 1))
    ELSE target_word(s, m, w)

\* (?:\w+\.)?(\w+)(?:\.as_view\(\))? matched at position m of s
target_at(s, m) == target_qualifier(s, m, SkipWord(s, m))

\* The index of the first line break of s at or after i (Len(s) + 1 if none):
\* "." matches any character but a line break.
RECURSIVE SkipLine(_, _)
SkipLine(s, i) ==
    IF i <= Len(s) /\ Char(s, i) # "\n" THEN SkipLine(s, i + 1) ELSE i

\* The ends e of group 1 of path_pattern, started at a, that let the rest of
\* the pattern match: s[a..e] holds no line break and is followed by a quote,
\* a comma, white space and a target.
PathEnds(s, a) ==
    {e \in a..(SkipLine(s, a) - 1) :
        /\ e + 1 <= Len(s) /\ IsQuote(Char(s, e + 1))
        /\ StartsWithAt(s, e + 2, ",")
        /\ target_at(s, SkipSpace(s, e + 3)).ok}

\* the least member of a non-empty set of integers
Least(S) == CHOOSE x \in S : \A y \in S : x <= y

path_groups(s, i, e, t) == Match(i, SubSeq(s, i + 6, e), t.g2, t.end)

\* the lazy group 1 (.+?) takes the shortest of its possible ends
path_shortest(s, i, ends) ==
    IF ends = {} THEN NoMatch
    ELSE path_groups(s, i, Least(ends), target_at(s, SkipSpace(s, Least(ends) + 3)))

\* path_pattern matched at position i of s:
\*   path\(['\"](.+?)['\"],\s*(?:\w+\.)?(\w+)(?:\.as_view\(\))?
path_pattern_at(s, i) ==
    IF StartsWithAt(s, i, "path(") /\ i + 5 <= Len(s) /\ IsQuote(Char(s, i + 5))
    THEN path_shortest(s, i, PathEnds(s, i + 6))
    ELSE NoMatch

pattern_at(pattern, s, i) ==
    IF pattern = "router" THEN router_pattern_at(s, i) ELSE path_pattern_at(s, i)

\* the matches of pattern at the positions of s
all_matches(pattern, s) ==
    {m \in {pattern_at(pattern, s, i) : i \in 1..Len(s)} : m.ok}

\* the matches among M that start at or after pos
matches_from(M, pos) == {m \in M : m.start >= pos}

\* the leftmost of the matches M
leftmost(M) == CHOOSE m \in M : \A n \in M : m.start <= n.start

\* the scan of finditer: the matches from left to right, each search resumed
\* where the last match ended
RECURSIVE scan(_, _)
found(M) ==
    IF M = {} THEN <<>>
    ELSE <<leftmost(M)>> \o scan(M, leftmost(M).end)
scan(M, pos) == found(matches_from(M, pos))

\* pattern.finditer(s), searching from pos
finditer(pattern, s, pos) == scan(all_matches(pattern, s), pos)

non_view_names == <<"include", "path", "re_path", "name", "basename">>

\* the entries appended for the matches of router_pattern
router_entries(matches, file) ==
    [i \in 1..Len(matches) |->
        [type |-> "router", prefix |-> matches[i].g1,
         viewset |-> matches[i].g2, file |-> file]]

\* the entries appended for the matches of path_pattern
path_entries(matches, file) ==
    [i \in 1..Len(matches) |->
        [type |-> "path", path |-> matches[i].g1,
         view |-> matches[i].g2, file |-> file]]

\* the entries _parse_url_patterns appends for one file's text
url_entries(content, file) ==
    router_entries(SelectSeq(finditer("router", content, 1),
                             LAMBDA m : m.g2 # "basename"), file)
    \o
    path_entries(SelectSeq(finditer("path", content, 1),
                           LAMBDA m : ~InSeq(m.g2, non_view_names)), file)

\* _parse_url_patterns: only read_text can raise, before anything is appended
parse_url_patterns(patterns, f) ==
    IF read_text(f) = Raised THEN patterns
    ELSE patterns \o url_entries(read_text(f), f.path)

EndpointInfo(path, method, function_name, summary, description, parameters, request_model, response_model, tags, status_code, file_path, line_number) ==
    [path |-> path, method |-> method, function_name |-> function_name,
     summary |-> summary, description |-> description,
     parameters |-> parameters, request_model |-> request_model,
     response_model |-> response_model, tags |-> tags,
     status_code |-> status_code, file_path |-> file_path,
     line_number |-> line_number]

RECURSIVE Flatten(_)
Flatten(ss) == IF ss = <<>> THEN <<>> ELSE Head(ss) \o Flatten(Tail(ss))

\* x or y, for an optional string x
Or(x, y) == IF x = None \/ x = "" THEN y ELSE x

\* the parameters of the page and page_size entries of _get_viewset_parameters
pagination_parameter(name) == EndpointParameter(name, "query", "int", FALSE, None)

\* A synthesis that gives the id parameter to retrieve alone.
get_viewset_parameters_retrieve_only(action) ==
    (IF action = "retrieve"
     THEN <<EndpointParameter("id", "path", "int", TRUE, None)>>
     ELSE <<>>)
    \o
    (IF action = "list"
     THEN <<pagination_parameter("page"), pagination_parameter("page_size")>>
     ELSE <<>>)

get_viewset_parameters(action) ==
    (IF action \in {"retrieve", "update", "partial_update", "destroy"}
     THEN <<EndpointParameter("id", "path", "int", TRUE, None)>>
     ELSE <<>>)
    \o
    (IF action = "list"
     THEN <<pagination_parameter("page"), pagination_parameter("page_size")>>
     ELSE <<>>)

\* the keys of action_mappings, in the order of the dict literal
action_keys == <<"list", "create", "retrieve", "update", "partial_update", "destroy">>

\* action_mappings[action]: <<method, path>>
action_mappings(prefix, action) ==
    IF action = "list" THEN <<"GET", "/" \o prefix \o "/">>
    ELSE IF action = "create" THEN <<"POST", "/" \o prefix \o "/">>
    ELSE IF action = "retrieve" THEN <<"GET", "/" \o prefix \o "/{id}/">>
    ELSE IF action = "update" THEN <<"PUT", "/" \o prefix \o "/{id}/">>
    ELSE IF action = "partial_update" THEN <<"PATCH", "/" \o prefix \o "/{id}/">>
    ELSE <<"DELETE", "/" \o prefix \o "/{id}/">>

\* A join that assumes nothing for a viewset without actions of its own.
viewset_actions_discovered(viewset) == Get(viewset, "actions", <<>>)

\* actions = viewset.get("actions", []); if not actions: all of the table
viewset_actions(viewset) ==
    IF Get(viewset, "actions", <<>>) = <<>> THEN action_keys ELSE viewset.actions

\* A join that tags a standard-action endpoint with the prefix as written.
standard_endpoint_untitled(prefix, viewset, action) ==
    LET m == action_mappings(prefix, action)
        doc == parse_docstring(Get(viewset, "docstring", ""))
    IN EndpointInfo(m[2], m[1], action,
                    Or(doc[1], Title(action) \o " " \o prefix), doc[2],
                    get_viewset_parameters(action),
                    Get(viewset, "serializer", None),
                    Get(viewset, "serializer", None),
                    <<prefix>>,
                    IF m[1] = "GET" THEN 200 ELSE IF m[1] = "POST" THEN 201 ELSE 200,
                    viewset.file, viewset.line)

\* the endpoint _create_viewset_endpoints makes for one standard action
standard_endpoint(prefix, viewset, action) ==
    LET m == action_mappings(prefix, action)
        doc == parse_docstring(Get(viewset, "docstring", ""))
    IN EndpointInfo(m[2], m[1], action,
                    Or(doc[1], Title(action) \o " " \o prefix), doc[2],
                    get_viewset_parameters(action),
                    Get(viewset, "serializer", None),
                    Get(viewset, "serializer", None),
                    <<Title(prefix)>>,
                    IF m[1] = "GET" THEN 200 ELSE IF m[1] = "POST" THEN 201 ELSE 200,
                    viewset.file, viewset.line)

\* A join that puts every custom action directly under the prefix.
custom_endpoints_flat(prefix, viewset, custom_action) ==
    LET doc == parse_docstring(custom_action.docstring)
    IN [i \in 1..Len(custom_action.methods) |->
            EndpointInfo("/" \o prefix \o "/" \o custom_action.name \o "/",
                         Upper(custom_action.methods[i]), custom_action.name,
                         Or(doc[1], Title(custom_action.name) \o " " \o prefix),
                         doc[2], <<>>, None, None, <<Title(prefix)>>, 200,
                         viewset.file, custom_action.line)]

\* the endpoints _create_viewset_endpoints makes for one custom action
custom_endpoints(prefix, viewset, custom_action) ==
    LET doc == parse_docstring(custom_action.docstring)
        path_suffix == IF custom_action.detail
                       THEN "{id}/" \o custom_action.name \o "/"
                       ELSE custom_action.name \o "/"
    IN [i \in 1..Len(custom_action.methods) |->
            EndpointInfo("/" \o prefix \o "/" \o path_suffix,
                         Upper(custom_action.methods[i]), custom_action.name,
                         Or(doc[1], Title(custom_action.name) \o " " \o prefix),
                         doc[2], <<>>, None, None, <<Title(prefix)>>, 200,
                         viewset.file, custom_action.line)]

create_viewset_endpoints(prefix, viewset) ==
    LET actions == SelectSeq(viewset_actions(viewset),
                             LAMBDA a : InSeq(a, action_keys))
        customs == Get(viewset, "custom_actions", <<>>)
    IN [i \in 1..Len(actions) |-> standard_endpoint(prefix, viewset, actions[i])]
       \o Flatten([i \in 1..Len(customs) |->
                      custom_endpoints(prefix, viewset, customs[i])])

create_apiview_endpoints(path, view) ==
    LET methods == Get(view, "methods", <<>>)
        doc == parse_docstring(Get(view, "docstring", ""))
    IN [i \in 1..Len(methods) |->
            EndpointInfo("/" \o path, methods[i].method, view.name,
                         Or(doc[1], view.name), doc[2], <<>>, None, None,
                         <<"API">>, 200, view.file, view.line)]

\* A join that does not look the target up: a registration whose target is
\* not recorded is given the endpoints of a viewset with no actions of its own.
pattern_endpoints_unmatched(pattern, views) ==
    IF pattern.type = "router"
    THEN create_viewset_endpoints(
            pattern.prefix,
            Get(views, pattern.viewset,
                [name |-> pattern.viewset, file |-> pattern.file, line |-> 0]))
    ELSE IF pattern.type = "path" /\ pattern.view \in DOMAIN views
    THEN create_apiview_endpoints(pattern.path, views[pattern.view])
    ELSE <<>>

\* the endpoints _create_endpoints_from_patterns appends for one pattern
pattern_endpoints(pattern, views) ==
    IF pattern.type = "router" /\ pattern.viewset \in DOMAIN views
    THEN create_viewset_endpoints(pattern.prefix, views[pattern.viewset])
    ELSE IF pattern.type = "path" /\ pattern.view \in DOMAIN views
    THEN create_apiview_endpoints(pattern.path, views[pattern.view])
    ELSE <<>>

create_endpoints_from_patterns(patterns, views) ==
    Flatten([i \in 1..Len(patterns) |-> pattern_endpoints(patterns[i], views)])

\* First pass of DjangoAnalyzer.analyze
RECURSIVE serializers_pass(_, _, _)
serializers_pass(sers, files, pp) ==
    IF files = <<>> THEN sers
    ELSE LET f == Head(files)
         IN serializers_pass(
                IF should_skip_file(FullPath(pp, f.path))
                   \/ ~Contains(FullPath(pp, f.path), "serializers")
                THEN sers ELSE extract_serializers(sers, f),
                Tail(files), pp)

\* Second pass
RECURSIVE views_pass(_, _, _)
views_pass(views, files, pp) ==
    IF files = <<>> THEN views
    ELSE LET f == Head(files)
         IN views_pass(
                IF should_skip_file(FullPath(pp, f.path))
                   \/ Contains(FullPath(pp, f.path), "admin")
                THEN views ELSE extract_views(views, f),
                Tail(files), pp)

\* Whether the third pass reads a file
is_urls_file(f) == Contains(BaseName(f.path), "urls.py")

\* Third pass
RECURSIVE urls_pass(_, _, _)
urls_pass(patterns, files, pp) ==
    IF files = <<>> THEN patterns
    ELSE LET f == Head(files)
         IN urls_pass(
                IF is_urls_file(f) THEN parse_url_patterns(patterns, f) ELSE patterns,
                Tail(files), pp)

\* What analyze() starts from: it resets self.endpoints alone, and the scratch
\* structures hold what __init__ or the instance's earlier calls left in them
analyze_start(self) == self

\* A view record that names its serializer only when the serializer is known.
known_serializer(view, sers) ==
    IF "serializer" \in DOMAIN view /\ view.serializer \notin DOMAIN sers
    THEN [view EXCEPT !.serializer = None]
    ELSE view

\* An analysis whose join resolves the serializer of a viewset against the
\* serializers the first pass recorded.
django_analyze_resolved(self, files, pp) ==
    LET start == analyze_start(self)
        sers == serializers_pass(start.serializers, files, pp)
        views == views_pass(start.viewsets, files, pp)
        patterns == urls_pass(start.url_patterns, files, pp)
    IN [serializers |-> sers, viewsets |-> views, url_patterns |-> patterns,
        endpoints |-> create_endpoints_from_patterns(
                        patterns,
                        [n \in DOMAIN views |-> known_serializer(views[n], sers)])]

\* DjangoAnalyzer.analyze on an instance self = [url_patterns, viewsets,
\* serializers] over the files the walk yields: the instance's fields after
\* the call, endpoints being also what the call returns
django_analyze(self, files, pp) ==
    LET start == analyze_start(self)
        sers == serializers_pass(start.serializers, files, pp)
        views == views_pass(start.viewsets, files, pp)
        patterns == urls_pass(start.url_patterns, files, pp)
    IN [serializers |-> sers, viewsets |-> views, url_patterns |-> patterns,
        endpoints |-> create_endpoints_from_patterns(patterns, views)]

---------------------------------------------------------------------------
(* fastapi_analyzer.py *)

route_methods == <<"get", "post", "put", "delete", "patch", "options", "head">>

\* _parse_decorator: <<method, path>>, <<None, None>> for no route marker.
\* The route paths of the modelled sources are string literals.
parse_decorator(decorator) ==
    IF /\ decorator.type = "Call"
       /\ decorator.sub[1].type = "Attribute"
       /\ InSeq(decorator.sub[1].name, route_methods)
       /\ Len(decorator.sub) >= 2
       /\ decorator.sub[2].type = "Constant"
    THEN <<decorator.sub[1].name,
           IF Truthy(decorator.sub[2]) THEN str_value(decorator.sub[2]) ELSE "">>
    ELSE <<None, None>>

\* _get_type_string
get_type_string(annotation) ==
    IF annotation.type = "Name" THEN annotation.name
    ELSE IF annotation.type \in {"Subscript", "Attribute"} THEN unparse(annotation)
    ELSE "Any"

\* the default_value _extract_parameters takes from a default expression
default_string(default_node) ==
    IF default_node.type = "Constant" THEN str_value(default_node)
    ELSE unparse(default_node)

\* A derivation that knows no header parameters.
param_type_of_headerless(type_str) ==
    IF Contains(type_str, "Path") THEN "path"
    ELSE IF Contains(type_str, "Body") THEN "body"
    ELSE "query"

\* the param_type _extract_parameters derives from the annotation text
param_type_of(type_str) ==
    IF Contains(type_str, "Path") THEN "path"
    ELSE IF Contains(type_str, "Body") THEN "body"
    ELSE IF Contains(type_str, "Header") THEN "header"
    ELSE "query"

\* the parameter _extract_parameters makes of args[i]
parameter_at(args, defaults, i) ==
    LET a == args[i]
        default_offset == i - 1 - (Len(args) - Len(defaults))
        has_default == default_offset >= 0
        type_str == IF a.annotation # NoExpr THEN get_type_string(a.annotation) ELSE "string"
    IN EndpointParameter(
            a.arg,
            IF a.annotation # NoExpr THEN param_type_of(type_str) ELSE "query",
            type_str,
            ~has_default,
            IF has_default THEN default_string(defaults[default_offset + 1]) ELSE None)

\* An extraction that removes the receivers before it places the defaults.
extract_parameters_receivers_first(func_node) ==
    LET kept == SelectSeq(func_node.args, LAMBDA a : a.arg \notin {"self", "cls"})
    IN [k \in 1..Len(kept) |-> parameter_at(kept, func_node.defaults, k)]

extract_parameters(func_node) ==
    LET idx == SelectSeq([i \in 1..Len(func_node.args) |-> i],
                         LAMBDA i : func_node.args[i].arg \notin {"self", "cls"})
    IN [k \in 1..Len(idx) |-> parameter_at(func_node.args, func_node.defaults, idx[k])]

\* the value of the last keyword named arg of a call, NoExpr if there is none
RECURSIVE keyword_value(_, _)
keyword_value(kws, name) ==
    IF kws = <<>> THEN NoExpr
    ELSE IF kws[Len(kws)].arg = name THEN kws[Len(kws)].value
    ELSE keyword_value(SubSeq(kws, 1, Len(kws) - 1), name)

\* whether _extract_models takes a parameter's type as the request model
is_request_model(type_str) ==
    /\ type_str # ""
    /\ IsUpper(Char(type_str, 1))
    /\ ~Contains(type_str, "Path")
    /\ ~Contains(type_str, "Query")

\* An inference in which the return annotation is preferred to the keyword.
extract_models_returns_first(func_node, decorator) ==
    LET kw == IF decorator.type = "Call"
              THEN keyword_value(decorator.kw, "response_model") ELSE NoExpr
        response_model ==
            IF func_node.returns # NoExpr THEN get_type_string(func_node.returns)
            ELSE IF kw # NoExpr THEN get_type_string(kw)
            ELSE None
        typed == SelectSeq(func_node.args, LAMBDA a :
                    a.annotation # NoExpr /\ is_request_model(get_type_string(a.annotation)))
    IN <<IF typed = <<>> THEN None ELSE get_type_string(typed[1].annotation),
         response_model>>

\* _extract_models: <<request_model, response_model>>
extract_models(func_node, decorator) ==
    LET kw == IF decorator.type = "Call"
              THEN keyword_value(decorator.kw, "response_model") ELSE NoExpr
        response_model ==
            IF kw # NoExpr THEN get_type_string(kw)
            ELSE IF func_node.returns # NoExpr THEN get_type_string(func_node.returns)
            ELSE None
        typed == SelectSeq(func_node.args, LAMBDA a :
                    a.annotation # NoExpr /\ is_request_model(get_type_string(a.annotation)))
    IN <<IF typed = <<>> THEN None ELSE get_type_string(typed[1].annotation),
         response_model>>

\* _extract_tags
RECURSIVE extract_tags(_)
extract_tags(kws) ==
    IF kws = <<>> THEN <<>>
    ELSE (IF Head(kws).arg = "tags" /\ Head(kws).value.type = "List"
          THEN constant_values(Head(kws).value.sub) ELSE <<>>)
         \o extract_tags(Tail(kws))

\* An extraction without the "or 200": no status where the marker gives none.
RECURSIVE extract_status_code_unset(_)
extract_status_code_unset(kws) ==
    IF kws = <<>> THEN 0
    ELSE IF Head(kws).arg = "status_code" /\ Head(kws).value.type = "Constant"
         THEN Head(kws).value.n
    ELSE extract_status_code_unset(Tail(kws))

\* _extract_status_code, followed by "or 200": the value of the first
\* status_code keyword that is a constant, when that value is truthy.  The
\* status codes of the modelled sources are integer literals.
RECURSIVE extract_status_code(_)
extract_status_code(kws) ==
    IF kws = <<>> THEN 200
    ELSE IF Head(kws).arg = "status_code" /\ Head(kws).value.type = "Constant"
         THEN (IF Truthy(Head(kws).value) THEN Head(kws).value.n ELSE 200)
    ELSE extract_status_code(Tail(kws))

\* the endpoint _extract_endpoint_from_function builds for the decorator
\* that matched
route_endpoint(func_node, decorator, file) ==
    LET route == parse_decorator(decorator)
        doc == parse_docstring(Or(func_node.doc, ""))
        models == extract_models(func_node, decorator)
    IN EndpointInfo(route[2], Upper(route[1]), func_node.name, doc[1], doc[2],
                    extract_parameters(func_node), models[1], models[2],
                    extract_tags(decorator.kw), extract_status_code(decorator.kw),
                    file, func_node.lineno)

\* whether a decorator is a route marker: "if method and path"
is_route(decorator) ==
    LET route == parse_decorator(decorator)
    IN route[1] # None /\ route[2] # None /\ route[2] # ""

\* An extraction in which the last route marker of a function decides.
extract_endpoint_from_function_last(func_node, file) ==
    LET routes == SelectSeq(func_node.decorator_list, is_route)
    IN IF routes = <<>> THEN <<>>
       ELSE <<route_endpoint(func_node, routes[Len(routes)], file)>>

\* _extract_endpoint_from_function: <<endpoint>> for the first decorator that
\* is a route marker, << >> for None
extract_endpoint_from_function(func_node, file) ==
    LET routes == SelectSeq(func_node.decorator_list, is_route)
    IN IF routes = <<>> THEN <<>>
       ELSE <<route_endpoint(func_node, routes[1], file)>>

\* whether the walk of _analyze_file looks at a node
is_function_node(node) == node.type = "FunctionDef"

\* _analyze_file: an exception in open, read or ast.parse is caught and
\* leaves self.endpoints as it was
analyze_file(eps, f) ==
    IF read_text(f) = Raised THEN eps
    ELSE IF ast_parse(f) = Raised THEN eps
    ELSE LET nodes == SelectSeq(walk(ast_parse(f)), is_function_node)
         IN eps \o Flatten([i \in 1..Len(nodes) |->
                               extract_endpoint_from_function(nodes[i], f.path)])

\* the loop of FastAPIAnalyzer.analyze
RECURSIVE fastapi_pass(_, _, _)
fastapi_pass(eps, files, pp) ==
    IF files = <<>> THEN eps
    ELSE fastapi_pass(
            IF should_skip_file(FullPath(pp, Head(files).path)) THEN eps
            ELSE analyze_file(eps, Head(files)),
            Tail(files), pp)

\* FastAPIAnalyzer.analyze: self.endpoints after the call, which it returns
fastapi_analyze(files, pp) == fastapi_pass(<<>>, files, pp)

---------------------------------------------------------------------------
(* The projects analysed *)

AppRoot == "/srv/app"

request_arg == arg("request", NoExpr)

(* shop/views.py
     from rest_framework import viewsets
     class ProductViewSet(viewsets.ViewSet):              # line 8
         """Products of the shop."""
         serializer_class = ProductSerializer
         def list(self, request): ...
         def retrieve(self, request, pk=None): ...
         @action(detail=True, methods=['get', 'post'])
         def publish(self, request, pk=None): ...         # line 16
         @action(detail=False)
         def recent(self, request): ...                   # line 19
     class AuditViewSet(viewsets.ViewSet):                # line 22
         def list(self, request): ...
         def destroy(self, request, pk=None): ...
         def list(self, request, *args): ...              # redefinition
         @action(methods=[EXPORT_METHOD])
         def export(self, request): ...                   # line 30
     class OrderViewSet(viewsets.ModelViewSet):           # line 33
         queryset = Order.objects.all()
     class StatusView(APIView):                           # line 38
         def get(self, request): ...
     class InternalView(APIView):                         # line 44
         def post(self, request): ...
     @api_view(['GET', 'POST'])
     def health(request): ...                             # line 51
     @api_view
     def ping(request): ...                               # line 55          *)
ShopViews ==
    File("shop/views.py", TRUE, TRUE,
         "from rest_framework import viewsets\nfrom rest_framework.views import APIView\n",
         << ClassDef("ProductViewSet", 8, <<Attribute(Name("viewsets"), "ViewSet")>>,
                     "Products of the shop.",
                     << Assign(10, <<Name("serializer_class")>>, Name("ProductSerializer")),
                        Method("list", 11), Method("retrieve", 13),
                        FunctionDef("publish", 16,
                                    <<Call(Name("action"), <<>>,
                                           <<keyword("detail", Bool(TRUE)),
                                             keyword("methods", List(<<Str("get"), Str("post")>>))>>)>>,
                                    <<arg("self", NoExpr), request_arg>>, <<>>, NoExpr, None),
                        FunctionDef("recent", 19,
                                    <<Call(Name("action"), <<>>,
                                           <<keyword("detail", Bool(FALSE))>>)>>,
                                    <<arg("self", NoExpr), request_arg>>, <<>>, NoExpr, None) >>),
            ClassDef("AuditViewSet", 22, <<Attribute(Name("viewsets"), "ViewSet")>>, None,
                     << Method("list", 23), Method("destroy", 25), Method("list", 27),
                        FunctionDef("export", 30,
                                    <<Call(Name("action"), <<>>,
                                           <<keyword("methods", List(<<Name("EXPORT_METHOD")>>))>>)>>,
                                    <<arg("self", NoExpr), request_arg>>, <<>>, NoExpr, None) >>),
            ClassDef("OrderViewSet", 33, <<Attribute(Name("viewsets"), "ModelViewSet")>>, None,
                     << Assign(34, <<Name("queryset")>>,
                               Call(Attribute(Attribute(Name("Order"), "objects"), "all"),
                                    <<>>, <<>>)) >>),
            ClassDef("StatusView", 38, <<Name("APIView")>>, None, << Method("get", 39) >>),
            ClassDef("InternalView", 44, <<Name("APIView")>>, None, << Method("post", 45) >>),
            FunctionDef("health", 51,
                        <<Call(Name("api_view"), <<List(<<Str("GET"), Str("POST")>>)>>, <<>>)>>,
                        <<request_arg>>, <<>>, NoExpr, None),
            FunctionDef("ping", 55, <<Name("api_view")>>,
                        <<request_arg>>, <<>>, NoExpr, None) >>)

(* shop/urls.py: no class or function definition *)
ShopUrls ==
    File("shop/urls.py", TRUE, TRUE,
         "from django.urls import path, include\nfrom . import views\n"
         \o "from .views import InternalView, ping\n"
         \o "router.register(r'products', views.ProductViewSet, basename='product')\n"
         \o "router.register(r'audits', views.AuditViewSet)\n"
         \o "router.register(r'order-items', views.OrderViewSet)\n"
         \o "router.register(r'ghosts', views.GhostViewSet)\n"
         \o "router.register(r'status', views.StatusView)\n"
         \o "urlpatterns = [\n    path('', include(router.urls)),\n"
         \o "    path('health/', views.health, name='health'),\n"
         \o "    path('status/', views.StatusView.as_view()),\n"
         \o "    path('internal/', InternalView.as_view()),\n"
         \o "    path('ping/', ping),\n"
         \o "    path('catalog/', views.ProductViewSet.as_view({'get': 'list'})),\n"
         \o "    path('missing/', views.missing_view),\n]\n",
         <<>>)

(* tests/urls.py: the routing table of the test settings *)
TestsUrls ==
    File("tests/urls.py", TRUE, TRUE,
         "router.register(r'fixtures', views.ProductViewSet)\n", <<>>)

(* legacy/urls.py: Python 2 source, which ast.parse rejects *)
LegacyUrls ==
    File("legacy/urls.py", TRUE, FALSE,
         "print 'legacy routes'\nurlpatterns = [path('status/', views.StatusView.as_view())]\n",
         <<>>)

(* reports/urls.py: not UTF-8, so that reading it raises UnicodeDecodeError;
   text and body are what a reader that ignored the error would see *)
ReportsUrls ==
    File("reports/urls.py", FALSE, TRUE,
         "from django.urls import path\nrouter.register(r'reports', ProductViewSet)\n",
         << ClassDef("ReportView", 5, <<Name("APIView")>>, None, << Method("get", 6) >>),
            FunctionDef("report", 12,
                        <<Call(Attribute(Name("app"), "get"), <<Str("/reports")>>, <<>>)>>,
                        <<>>, <<>>, NoExpr, None) >>)

(* api/main.py
     from fastapi import FastAPI
     @app.get("/items/{id}")
     def read_item(id: int, q: str = None): ...                # line 6
     @router.post("/items", status_code=201, tags=["items"])
     def create_item(item: Item, dry_run: bool = False) -> Item:   # line 12
         """Create an item."""
     @limiter.limit("5/minute")
     @app.get("/items", tags=["items"], response_model=ItemList)
     @app.post("/items/search", status_code=202, tags=["search"],
               response_model=SearchResult)
     def list_items(limit: int = 10, cursor=None) -> Page: ...     # line 20
     @app.put("/items/{item_id}")
     def update_item(item_id: Annotated[int, Path()],
                     item: Annotated[Item, Body()],
                     x_token: Annotated[str, Header()],
                     note: int | None = None): ...                 # line 26
     @app.delete("/items/{item_id}")
     async def delete_item(item_id: int): ...                      # line 32
     if settings.DEBUG:                                            # line 36
         @app.get("/debug")
         def debug(): ...                                          # line 38
     @router.get("")
     def index(): ...                                              # line 42
     @app.post("/orders", status_code=status.HTTP_201_CREATED)
     def create_order(order: Order) -> None: ...                   # line 46
     @app.get("/search")
     def search(q: list[str], note: int | None = None): ...        # line 50
     class ItemRoutes:                                             # line 54
         @router.get("/things", response_model=list[Thing])
         def get_things(self, limit: int = 10, q: str = None) -> ThingPage: ...  # line 56
         @router.patch("/things/{id}")
         def patch_thing(id: int, cls=None, db=Depends(get_db)): ...   # line 60 *)
ApiMain ==
    File("api/main.py", TRUE, TRUE, "from fastapi import FastAPI\n",
         << FunctionDef("read_item", 6,
                        <<Call(Attribute(Name("app"), "get"), <<Str("/items/{id}")>>, <<>>)>>,
                        <<arg("id", Name("int")), arg("q", Name("str"))>>,
                        <<NoneConst>>, NoExpr, None),
            FunctionDef("create_item", 12,
                        <<Call(Attribute(Name("router"), "post"), <<Str("/items")>>,
                               <<keyword("status_code", Num(201)),
                                 keyword("tags", List(<<Str("items")>>))>>)>>,
                        <<arg("item", Name("Item")), arg("dry_run", Name("bool"))>>,
                        <<Bool(FALSE)>>, Name("Item"), "Create an item."),
            FunctionDef("list_items", 20,
                        <<Call(Attribute(Name("limiter"), "limit"), <<Str("5/minute")>>, <<>>),
                          Call(Attribute(Name("app"), "get"), <<Str("/items")>>,
                               <<keyword("tags", List(<<Str("items")>>)),
                                 keyword("response_model", Name("ItemList"))>>),
                          Call(Attribute(Name("app"), "post"), <<Str("/items/search")>>,
                               <<keyword("status_code", Num(202)),
                                 keyword("tags", List(<<Str("search")>>)),
                                 keyword("response_model", Name("SearchResult"))>>)>>,
                        <<arg("limit", Name("int")), arg("cursor", NoExpr)>>,
                        <<Num(10), NoneConst>>, Name("Page"), None),
            FunctionDef("update_item", 26,
                        <<Call(Attribute(Name("app"), "put"), <<Str("/items/{item_id}")>>, <<>>)>>,
                        <<arg("item_id", Subscript(Name("Annotated"),
                                    Tuple(<<Name("int"), Call(Name("Path"), <<>>, <<>>)>>))),
                          arg("item", Subscript(Name("Annotated"),
                                    Tuple(<<Name("Item"), Call(Name("Body"), <<>>, <<>>)>>))),
                          arg("x_token", Subscript(Name("Annotated"),
                                    Tuple(<<Name("str"), Call(Name("Header"), <<>>, <<>>)>>))),
                          arg("note", BinOr(Name("int"), NoneConst))>>,
                        <<NoneConst>>, NoExpr, None),
            AsyncFunctionDef("delete_item", 32,
                        <<Call(Attribute(Name("app"), "delete"), <<Str("/items/{item_id}")>>, <<>>)>>,
                        <<arg("item_id", Name("int"))>>, <<>>, NoExpr, None),
            Block(36, << FunctionDef("debug", 38,
                        <<Call(Attribute(Name("app"), "get"), <<Str("/debug")>>, <<>>)>>,
                        <<>>, <<>>, NoExpr, None) >>),
            FunctionDef("index", 42,
                        <<Call(Attribute(Name("router"), "get"), <<Str("")>>, <<>>)>>,
                        <<>>, <<>>, NoExpr, None),
            FunctionDef("create_order", 46,
                        <<Call(Attribute(Name("app"), "post"), <<Str("/orders")>>,
                               <<keyword("status_code",
                                         Attribute(Name("status"), "HTTP_201_CREATED"))>>)>>,
                        <<arg("order", Name("Order"))>>, <<>>, NoneConst, None),
            FunctionDef("search", 50,
                        <<Call(Attribute(Name("app"), "get"), <<Str("/search")>>, <<>>)>>,
                        <<arg("q", Subscript(Name("list"), Name("str"))),
                          arg("note", BinOr(Name("int"), NoneConst))>>,
                        <<NoneConst>>, NoExpr, None),
            ClassDef("ItemRoutes", 54, <<>>, None,
                     << FunctionDef("get_things", 56,
                            <<Call(Attribute(Name("router"), "get"), <<Str("/things")>>,
                                   <<keyword("response_model",
                                             Subscript(Name("list"), Name("Thing")))>>)>>,
                            <<arg("self", NoExpr), arg("limit", Name("int")),
                              arg("q", Name("str"))>>,
                            <<Num(10), NoneConst>>, Name("ThingPage"), None),
                        FunctionDef("patch_thing", 60,
                            <<Call(Attribute(Name("router"), "patch"), <<Str("/things/{id}")>>, <<>>)>>,
                            <<arg("id", Name("int")), arg("cls", NoExpr), arg("db", NoExpr)>>,
                            <<NoneConst, Call(Name("Depends"), <<Name("get_db")>>, <<>>)>>,
                            NoExpr, None) >>) >>)

(* orders/views.py
     from rest_framework import viewsets
     class OrderViewSet(viewsets.ViewSet):                # line 4
         serializer_class = OrderSerializer
         def list(self, request): ...                     # line 6
     class StatusView(viewsets.ViewSet):                  # line 10
         def retrieve(self, request, pk=None): ...        # line 11
     @api_view(['DELETE'])
     def health(request): ...                             # line 16
     @api_view(['PUT'])
     def health(request): ...                             # line 20          *)
OrdersViews ==
    File("orders/views.py", TRUE, TRUE, "from rest_framework import viewsets\n",
         << ClassDef("OrderViewSet", 4, <<Attribute(Name("viewsets"), "ViewSet")>>, None,
                     << Assign(5, <<Name("serializer_class")>>, Name("OrderSerializer")),
                        Method("list", 6) >>),
            ClassDef("StatusView", 10, <<Attribute(Name("viewsets"), "ViewSet")>>, None,
                     << Method("retrieve", 11) >>),
            FunctionDef("health", 16,
                        <<Call(Name("api_view"), <<List(<<Str("DELETE")>>)>>, <<>>)>>,
                        <<request_arg>>, <<>>, NoExpr, None),
            FunctionDef("health", 20,
                        <<Call(Name("api_view"), <<List(<<Str("PUT")>>)>>, <<>>)>>,
                        <<request_arg>>, <<>>, NoExpr, None) >>)

(* shop/serializers.py
     from rest_framework import serializers
     class ProductSerializer(serializers.ModelSerializer):   # line 4
         name = serializers.CharField()
         price: Decimal = serializers.DecimalField()              *)
ShopSerializers ==
    File("shop/serializers.py", TRUE, TRUE, "from rest_framework import serializers\n",
         << ClassDef("ProductSerializer", 4,
                     <<Attribute(Name("serializers"), "ModelSerializer")>>, None,
                     << Assign(5, <<Name("name")>>,
                               Call(Attribute(Name("serializers"), "CharField"), <<>>, <<>>)),
                        AnnAssign(6, Name("price"),
                               Call(Attribute(Name("serializers"), "DecimalField"), <<>>, <<>>)) >>) >>)

(* venv/site.py: a package installed in the virtual environment, with a
   route and a view of its own *)
VenvSite ==
    File("venv/site.py", TRUE, TRUE, "import fastapi\n",
         << ClassDef("GhostViewSet", 3, <<Name("ModelViewSet")>>, None, <<>>),
            FunctionDef("docs", 9,
                        <<Call(Attribute(Name("app"), "get"), <<Str("/docs")>>, <<>>)>>,
                        <<>>, <<>>, NoExpr, None) >>)

ProjectFiles ==
    {ShopViews, ShopUrls, TestsUrls, LegacyUrls, ReportsUrls, ApiMain, VenvSite,
     OrdersViews, ShopSerializers}

\* The order in which the directory walk of the disk yields them.
ProjectWalk ==
    <<LegacyUrls.path, ApiMain.path, VenvSite.path, TestsUrls.path, ShopSerializers.path,
      ShopViews.path, ShopUrls.path, OrdersViews.path, ReportsUrls.path>>

\* The most files a project holds.
MaxFiles == 3

\* The ways to pick n of the positions 1..m, in increasing order.
Picks(n, m) == {p \in [1..n -> 1..m] : \A i \in 1..(n - 1) : p[i] < p[i + 1]}

\* The directory walks of the projects that hold at most k of the files the
\* walk w yields.
Walks(w, k) ==
    UNION {{[i \in 1..n |-> w[p[i]]] : p \in Picks(n, Len(w))} : n \in 0..k}

ProjectTrees == Walks(ProjectWalk, MaxFiles)

\* The most analyze() calls made on one instance.
MaxCalls == 2

---------------------------------------------------------------------------
(* The projects the detector is run on *)

(* manage.py at the root *)
ManagePy == File("manage.py", TRUE, TRUE, "import os\nimport sys\n", <<>>)

(* config/settings.py: a settings module that imports nothing *)
ConfigSettings == File("config/settings.py", TRUE, TRUE, "DEBUG = True\n", <<>>)

(* config/settings/base.py: a settings package *)
SettingsBase == File("config/settings/base.py", TRUE, TRUE, "DEBUG = False\n", <<>>)

(* docs/conf.py: names both frameworks, but in no import statement *)
DocsConf ==
    File("docs/conf.py", TRUE, TRUE,
         "# from django import forms\nimport os\nproject = 'import fastapi'\n", <<>>)

(* worker/tasks.py: imports fastapi inside a function body *)
WorkerTasks ==
    File("worker/tasks.py", TRUE, TRUE,
         "import os\n\ndef run():\n    from fastapi import FastAPI\n", <<>>)

DetectFiles == {ManagePy, ConfigSettings, SettingsBase, DocsConf, WorkerTasks,
                ShopUrls, ReportsUrls, ApiMain}

DetectWalk ==
    <<ApiMain.path, SettingsBase.path, ConfigSettings.path, DocsConf.path,
      ManagePy.path, ReportsUrls.path, ShopUrls.path, WorkerTasks.path>>

\* A module that imports neither framework.
Filler(i) == File("pkg/m" \o ToString(i) \o ".py", TRUE, TRUE, "import os\n", <<>>)

FillerFiles == {Filler(i) : i \in 1..SampleSize}

\* The walk yields n such modules before anything else.
Fillers(n) == [i \in 1..n |-> Filler(i).path]

\* The most files of DetectWalk a project holds besides the fillers.
MaxSpecial == 2

\* The projects: no filler, fillers that leave one place in the sample, and
\* fillers that take the whole sample.
DetectTrees ==
    {Fillers(n) \o w : n \in {0, SampleSize - 1, SampleSize},
                       w \in Walks(DetectWalk, MaxSpecial)}

---------------------------------------------------------------------------
(* The analyzers at work on a project *)

\* Every file a project may hold; a path names one file.
Disk == ProjectFiles \cup DetectFiles \cup FillerFiles

\* The files with the paths t, in that order.
FilesOf(t) == [i \in 1..Len(t) |-> CHOOSE f \in Disk : f.path = t[i]]

\* list(project_path.rglob("*.py")): the files of the project when the path
\* is its root
rglob(pp) == IF pp = root THEN FilesOf(tree) ELSE <<>>

\* detect_framework(project_path) as main.py calls it, on the project root,
\* when no --framework is given.
DetectFramework ==
    /\ detected = None
    /\ framework = None
    /\ LET r == detect_framework(rglob(root))
       IN IF r = Raised
          THEN error' = "Exception" /\ UNCHANGED detected
          ELSE detected' = r /\ UNCHANGED error
    /\ UNCHANGED <<root, tree, framework, analyzer, project_path, endpoints,
                   url_patterns, viewsets, serializers, calls, lastTree, cli, review>>

\* No CLI command runs; no review is in progress.
NoCommand == [command |-> None]
NoReview == [pc |-> None]

\* A process that has the project t before it and has called nothing yet.
Start(t) ==
    /\ root = AppRoot
    /\ tree = t
    /\ detected = None
    /\ framework = None
    /\ error = None
    /\ analyzer = None
    /\ project_path = None
    /\ endpoints = <<>>
    /\ url_patterns = <<>>
    /\ viewsets = <<>>
    /\ serializers = <<>>
    /\ calls = 0
    /\ lastTree = <<>>
    /\ cli = NoCommand
    /\ review = NoReview

Init == \E t \in ProjectTrees : Start(t)

\* FastAPIAnalyzer.analyze()
FastAPIAnalyze ==
    /\ analyzer = "FastAPIAnalyzer"
    /\ calls < MaxCalls
    /\ endpoints' = fastapi_analyze(rglob(project_path), project_path)
    /\ calls' = calls + 1
    /\ lastTree' = tree
    /\ UNCHANGED <<root, tree, detected, framework, error, analyzer, project_path,
                   url_patterns, viewsets, serializers, cli, review>>

\* DjangoAnalyzer.analyze()
DjangoAnalyze ==
    /\ analyzer = "DjangoAnalyzer"
    /\ calls < MaxCalls
    /\ LET after == django_analyze(
                        [url_patterns |-> url_patterns, viewsets |-> viewsets,
                         serializers |-> serializers],
                        rglob(project_path), project_path)
       IN /\ endpoints' = after.endpoints
          /\ url_patterns' = after.url_patterns
          /\ viewsets' = after.viewsets
          /\ serializers' = after.serializers
    /\ calls' = calls + 1
    /\ lastTree' = tree
    /\ UNCHANGED <<root, tree, detected, framework, error, analyzer, project_path,
                   cli, review>>

\* t without its i-th file
Without(t, i) == SubSeq(t, 1, i - 1) \o SubSeq(t, i + 1, Len(t))

\* The developer deletes a file of the project.
RemoveFile ==
    /\ \E i \in 1..Len(tree) : tree' = Without(tree, i)
    /\ UNCHANGED <<root, detected, framework, error, analyzer, project_path,
                   endpoints, url_patterns, viewsets, serializers, calls, lastTree,
                   cli, review>>

Next == GetAnalyzer \/ FastAPIAnalyze \/ DjangoAnalyze \/ RemoveFile

Spec == Init /\ [][Next]_vars

\* The command line up to the construction of the analyzer.
InitDetect == \E t \in DetectTrees : Start(t)

NextDetect == DetectFramework \/ GetAnalyzer

SpecDetect == InitDetect /\ [][NextDetect]_vars

---------------------------------------------------------------------------
(* The project checked out at two locations *)

\* A project root with a directory named env on the way to it.
EnvRoot == "/srv/env/app"

Roots == {AppRoot, EnvRoot}

RootWalk == <<ApiMain.path, ShopViews.path, ShopUrls.path>>

RootTrees == Walks(RootWalk, MaxFiles)

StartAt(r, t) ==
    /\ root = r
    /\ tree = t
    /\ detected = None
    /\ framework = None
    /\ error = None
    /\ analyzer = None
    /\ project_path = None
    /\ endpoints = <<>>
    /\ url_patterns = <<>>
    /\ viewsets = <<>>
    /\ serializers = <<>>
    /\ calls = 0
    /\ lastTree = <<>>
    /\ cli = NoCommand
    /\ review = NoReview

InitRoots == \E r \in Roots : \E t \in RootTrees : StartAt(r, t)

NextRoots == GetAnalyzer \/ FastAPIAnalyze \/ DjangoAnalyze \/ RemoveFile

SpecRoots == InitRoots /\ [][NextRoots]_vars

---------------------------------------------------------------------------
(* main.py: the commands analyze and generate *)

Commands == {"analyze", "generate"}

\* The classes of typer.Exit (click.exceptions.Exit, a RuntimeError) and of
\* the error of the documentation stage (raise Exception(...)), most derived
\* first.
ExitClasses == <<"Exit", "RuntimeError", "Exception", "BaseException">>
ErrorClasses == <<"Exception", "BaseException">>

\* Whether "except Exception as e" catches an exception of these classes.
except_exception(classes) == InSeq("Exception", classes)

\* What leaves the try block of a command once analyze() has returned eps:
\* the exception raised in it, if any, whether the analysis file was written
\* and whether the documentation stage was started.  stage_ok is whether
\* the documentation stage of generate ends without an exception.
try_block(command, eps, save_analysis, stage_ok) ==
    IF eps = <<>>
    THEN [raised |-> ExitClasses, code |-> 0, saved |-> FALSE, docs |-> FALSE]
    ELSE IF command = "analyze"
    THEN [raised |-> <<>>, code |-> 0, saved |-> TRUE, docs |-> FALSE]
    ELSE [raised |-> IF stage_ok THEN <<>> ELSE ErrorClasses, code |-> 1,
          saved |-> save_analysis, docs |-> TRUE]

\* The exit status of a command whose try block ended as given: the handler
\* of "except Exception" raises typer.Exit(1).
exit_status(block) ==
    IF block.raised = <<>> THEN 0
    ELSE IF except_exception(block.raised) THEN 1
    ELSE block.code

\* The command is past its validation and has not ended.
Running ==
    /\ cli.command # None
    /\ ~cli.ended
    /\ cli.command = "generate" => cli.api_key

\* generate without an API key: raise typer.Exit(1) before the try block.
CommandRejected ==
    /\ cli.command = "generate"
    /\ ~cli.ended
    /\ ~cli.api_key
    /\ cli' = [cli EXCEPT !.ended = TRUE, !.exit = 1]
    /\ UNCHANGED <<root, tree, detected, framework, error, analyzer, project_path,
                   endpoints, url_patterns, viewsets, serializers, calls, lastTree,
                   review>>

\* detect_framework(project_path), when no --framework is given
CommandDetect == Running /\ DetectFramework

\* analyzer = get_analyzer(framework, str(project_path))
CommandGetAnalyzer == Running /\ GetAnalyzer

\* endpoints = analyzer.analyze()
CommandAnalyze == Running /\ calls = 0 /\ (FastAPIAnalyze \/ DjangoAnalyze)

\* The rest of the command: after an exception of detect_framework or
\* get_analyzer the handler alone, else what follows analyze().
CommandEnd ==
    /\ Running
    /\ \/ /\ error # None
          /\ cli' = [cli EXCEPT !.ended = TRUE, !.exit = 1]
       \/ /\ error = None
          /\ analyzer # None
          /\ calls = 1
          /\ \E stage_ok \in BOOLEAN :
                cli' = [cli EXCEPT
                    !.ended = TRUE,
                    !.exit = exit_status(try_block(cli.command, endpoints,
                                                   cli.save_analysis, stage_ok)),
                    !.saved = try_block(cli.command, endpoints,
                                        cli.save_analysis, stage_ok).saved,
                    !.docs = try_block(cli.command, endpoints,
                                       cli.save_analysis, stage_ok).docs]
    /\ UNCHANGED <<root, tree, detected, framework, error, analyzer, project_path,
                   endpoints, url_patterns, viewsets, serializers, calls, lastTree,
                   review>>

StartCommand(t, command, save_analysis, api_key) ==
    /\ root = AppRoot
    /\ tree = t
    /\ detected = None
    /\ framework = None
    /\ error = None
    /\ analyzer = None
    /\ project_path = None
    /\ endpoints = <<>>
    /\ url_patterns = <<>>
    /\ viewsets = <<>>
    /\ serializers = <<>>
    /\ calls = 0
    /\ lastTree = <<>>
    /\ cli = [command |-> command, save_analysis |-> save_analysis,
              api_key |-> api_key, ended |-> FALSE, exit |-> 0, saved |-> FALSE, docs |-> FALSE]
    /\ review = NoReview

InitCli ==
    \E t \in RootTrees : \E command \in Commands : \E save_analysis, api_key \in BOOLEAN :
        StartCommand(t, command, save_analysis, api_key)

NextCli ==
    CommandRejected \/ CommandDetect \/ CommandGetAnalyzer \/ CommandAnalyze \/ CommandEnd

SpecCli == InitCli /\ [][NextCli]_vars

---------------------------------------------------------------------------
(* reviewer.py and groq_service.py: the review of a generated document *)

\* The mark review looks for in the critique.
PassMark == "STATUS: PASS"

\* The documents handed to review, and what the chat API may answer to the
\* critique prompt and to the refine prompt (message.content).
Documents ==
    {"", "# API", "# API\n## GET /items", "# API\n## GET /items\n## POST /items"}
CritiqueReplies ==
    {"STATUS: PASS", "STATUS: FAIL\n- POST /items is missing",
     "Checked all endpoints. STATUS: PASS.", "status: pass", "PASS", ""}
RefineReplies ==
    {"# API\n## GET /items\n## POST /items", "# API (revised)", "STATUS: PASS", ""}

\* A critique service that reports a failure of its API call as a failed
\* review.
critique_documentation_fail_closed(reply) ==
    IF reply = Raised THEN "STATUS: FAIL" ELSE reply

\* GroqService.critique_documentation: reply is message.content of the
\* answer, or Raised when the API call raises ("fail open").
critique_documentation(reply) ==
    IF reply = Raised THEN PassMark ELSE reply

\* GroqService.refine_documentation: the answer, or the draft when the API
\* call raises.
refine_documentation(doc_content, reply) ==
    IF reply = Raised THEN doc_content ELSE reply

\* The record of one call of a service.
ServiceCall(service, reply) ==
    [service |-> service, failed |-> reply = Raised, reply |-> reply]

\* What review has not returned yet.
NoResult == [passed |-> FALSE, content |-> None]

\* review, line 30: critique = critique_documentation(doc_content, endpoints)
Critique ==
    /\ review.pc = "critique"
    /\ \E reply \in CritiqueReplies \cup {Raised} :
        review' = [review EXCEPT
            !.critique = critique_documentation(reply),
            !.calls = Append(@, ServiceCall("critique", reply)),
            !.pc = "check"]
    /\ UNCHANGED <<root, tree, detected, framework, error, analyzer, project_path,
                   endpoints, url_patterns, viewsets, serializers, calls, lastTree,
                   cli>>

\* review, lines 35-36: if "STATUS: PASS" in critique: return True, doc_content
ReturnPassed ==
    /\ review.pc = "check"
    /\ Contains(review.critique, PassMark)
    /\ review' = [review EXCEPT
            !.result = [passed |-> TRUE, content |-> review.doc_content],
            !.pc = "returned"]
    /\ UNCHANGED <<root, tree, detected, framework, error, analyzer, project_path,
                   endpoints, url_patterns, viewsets, serializers, calls, lastTree,
                   cli>>

\* review, lines 39-40: refined_content = refine_documentation(...);
\* return False, refined_content
Refine ==
    /\ review.pc = "check"
    /\ ~Contains(review.critique, PassMark)
    /\ \E reply \in RefineReplies \cup {Raised} :
        review' = [review EXCEPT
            !.refined_content = refine_documentation(review.doc_content, reply),
            !.calls = Append(@, ServiceCall("refine", reply)),
            !.result = [passed |-> FALSE,
                        content |-> refine_documentation(review.doc_content, reply)],
            !.pc = "returned"]
    /\ UNCHANGED <<root, tree, detected, framework, error, analyzer, project_path,
                   endpoints, url_patterns, viewsets, serializers, calls, lastTree,
                   cli>>

\* review(doc_content, endpoints) has been called and has done nothing yet.
StartReview(doc_content) ==
    /\ root = AppRoot
    /\ tree = <<>>
    /\ detected = None
    /\ framework = None
    /\ error = None
    /\ analyzer = None
    /\ project_path = None
    /\ endpoints = <<>>
    /\ url_patterns = <<>>
    /\ viewsets = <<>>
    /\ serializers = <<>>
    /\ calls = 0
    /\ lastTree = <<>>
    /\ cli = NoCommand
    /\ review = [pc |-> "critique", doc_content |-> doc_content, critique |-> None,
                 refined_content |-> None, calls |-> <<>>, result |-> NoResult]

InitReview == \E doc_content \in Documents : StartReview(doc_content)

NextReview == Critique \/ ReturnPassed \/ Refine

SpecReview == InitReview /\ [][NextReview]_vars

---------------------------------------------------------------------------
(* Properties of analyze() *)

\* A step that is a call of analyze() on the instance.
AnalyzeStep == calls' = calls + 1

\* The values of a sequence.
Range(q) == {q[i] : i \in 1..Len(q)}

\* C1: analyze() is idempotent: a call made on the tree that the instance's
\* last call saw returns the sequence that call returned, record for record
\* and in the same order.
C1_Idempotent ==
    [][(AnalyzeStep /\ calls >= 1 /\ tree = lastTree) => endpoints' = endpoints]_vars

\* C2: each analyze() of the multi-pass extractor works from scratch: after a
\* call, the URL patterns, the view records and the serializer records it
\* used, and the endpoints it returned, come from files of the tree the call
\* saw and from no file removed before it.
C2_FromScratch ==
    (analyzer = "DjangoAnalyzer" /\ calls >= 1) =>
        /\ \A i \in 1..Len(url_patterns) : InSeq(url_patterns[i].file, lastTree)
        /\ \A n \in DOMAIN viewsets : InSeq(viewsets[n].file, lastTree)
        /\ \A n \in DOMAIN serializers : InSeq(serializers[n].file, lastTree)
        /\ \A i \in 1..Len(endpoints) : InSeq(endpoints[i].file_path, lastTree)

\* The parameters of the endpoints the last analyze() returned.
Parameters == UNION {Range(endpoints[i].parameters) : i \in 1..Len(endpoints)}

\* C3: every parameter of every returned endpoint is optional if and only if
\* it has a default value.
C3_RequiredIffDefault ==
    \A p \in Parameters : (p.required = FALSE) <=> (p.default # None)

\* The view name a URL declaration targets.
Target(pattern) == IF pattern.type = "router" THEN pattern.viewset ELSE pattern.view

\* The standard-action endpoints among eps.
StandardOnly(eps) == SelectSeq(eps, LAMBDA e : InSeq(e.function_name, standard_actions))

\* The method and path the fixed table gives a standard action under a prefix.
TableMethod(a) ==
    CASE a = "list" -> "GET" [] a = "create" -> "POST" [] a = "retrieve" -> "GET"
      [] a = "update" -> "PUT" [] a = "partial_update" -> "PATCH" [] a = "destroy" -> "DELETE"
TablePath(prefix, a) ==
    IF a \in {"list", "create"} THEN "/" \o prefix \o "/" ELSE "/" \o prefix \o "/{id}/"

\* Whether the endpoints eps are exactly one per action of S under the
\* prefix, each with the method and path of the table.
OnePerAction(eps, prefix, S) ==
    /\ \A a \in S : Cardinality({k \in 1..Len(eps) : eps[k].function_name = a}) = 1
    /\ \A k \in 1..Len(eps) :
        /\ eps[k].function_name \in S
        /\ eps[k].method = TableMethod(eps[k].function_name)
        /\ eps[k].path = TablePath(prefix, eps[k].function_name)

\* C4: for a router registration whose target is a recorded viewset that
\* defines a non-empty set S of standard actions, the standard-action
\* endpoints of the registration are exactly one per action of S, with the
\* method and path of the table.
C4_OnePerDiscoveredAction ==
    \A i \in 1..Len(url_patterns) :
        LET p == url_patterns[i]
        IN (/\ p.type = "router"
            /\ p.viewset \in DOMAIN viewsets
            /\ Get(viewsets[p.viewset], "actions", <<>>) # <<>>)
           => OnePerAction(StandardOnly(pattern_endpoints(p, viewsets)), p.prefix,
                           Range(viewsets[p.viewset].actions))

\* Whether endpoint e is one the join makes of declaration p and view v.
MadeOf(e, p, v) ==
    /\ e.file_path = v.file
    /\ IF p.type = "router"
       THEN /\ StartsWith(e.path, "/" \o p.prefix \o "/")
            /\ e.tags = <<Title(p.prefix)>>
            /\ \/ e.line_number = v.line
               \/ \E k \in 1..Len(Get(v, "custom_actions", <<>>)) :
                        e.line_number = v.custom_actions[k].line
       ELSE /\ e.path = "/" \o p.path
            /\ e.function_name = v.name
            /\ e.line_number = v.line

\* The declarations whose target is a recorded view, and the others.
Matched == {i \in 1..Len(url_patterns) : Target(url_patterns[i]) \in DOMAIN viewsets}
Unmatched == (1..Len(url_patterns)) \ Matched

\* The recorded views no declaration targets.
Untargeted == {n \in DOMAIN viewsets : \A i \in 1..Len(url_patterns) : Target(url_patterns[i]) # n}

\* C5: every endpoint the multi-pass extractor returns is made of a URL
\* declaration and a recorded view of the same name; a declaration with no
\* such view yields no endpoint, and neither does a view with no declaration.
C5_JoinOnEqualNames ==
    analyzer = "DjangoAnalyzer" =>
        /\ error = None
        /\ \A k \in 1..Len(endpoints) :
                \E i \in Matched :
                    /\ viewsets[Target(url_patterns[i])].name = Target(url_patterns[i])
                    /\ MadeOf(endpoints[k], url_patterns[i],
                              viewsets[Target(url_patterns[i])])
        /\ \A i \in Unmatched : pattern_endpoints(url_patterns[i], viewsets) = <<>>
        /\ \A n \in Untargeted :
                \A k \in 1..Len(endpoints) :
                    ~(/\ endpoints[k].file_path = viewsets[n].file
                      /\ endpoints[k].line_number = viewsets[n].line)

\* an analysis returned endpoints although one declaration names no recorded
\* view and one recorded view is named by no declaration
C5_Witness ==
    /\ analyzer = "DjangoAnalyzer"
    /\ calls >= 1
    /\ endpoints # <<>>
    /\ Unmatched # {}
    /\ Untargeted # {}

\* A file that cannot be parsed: reading it raises, or ast.parse does.
CannotParse(f) == ~f.readable \/ ~f.parses

\* The files without those that cannot be parsed.
Parsable(files) == SelectSeq(files, LAMBDA f : ~CannotParse(f))

\* What a file that is read but is not valid Python leaves to a reader of its
\* text: the text, and no definition.
TextOnly(f) == IF f.parses THEN f ELSE [f EXCEPT !.parses = TRUE, !.body = <<>>]

\* The files without those that cannot be read, the others as their text.
Salvaged(files) ==
    LET readable == SelectSeq(files, LAMBDA f : f.readable)
    IN [i \in 1..Len(readable) |-> TextOnly(readable[i])]

\* What analyze() returns when the instance, as it is, is run over files.
Returned(files) ==
    IF analyzer = "FastAPIAnalyzer" THEN fastapi_analyze(files, project_path)
    ELSE django_analyze([url_patterns |-> url_patterns, viewsets |-> viewsets,
                         serializers |-> serializers], files, project_path).endpoints

\* C6 (as stated): analyze() returns normally and returns exactly what it
\* returns when the files that cannot be parsed are not in the tree, wherever
\* the walk yields them: such a file contributes no endpoint.
C6_FailingFileContributesNothing ==
    [][AnalyzeStep => endpoints' = Returned(Parsable(rglob(project_path)))]_vars

\* C6 (amended): analyze() returns normally and returns exactly what it
\* returns when the files that cannot be read are not in the tree and the
\* files that are read but are not valid Python hold their text and no
\* definition: a failing file contributes no view, serializer or route, and
\* nothing but the URL declarations the third pass finds in its text.
C6_FailingFileContributesTextOnly ==
    [][AnalyzeStep => (error = None /\ endpoints' = Returned(Salvaged(rglob(project_path))))]_vars

\* The declarations found in files of the last tree that are not valid Python.
FromInvalidFiles ==
    {i \in 1..Len(url_patterns) :
        \E k \in 1..Len(lastTree) :
            /\ lastTree[k] = url_patterns[i].file
            /\ CannotParse(FilesOf(lastTree)[k])}

\* an analysis over a tree with a file that is not valid Python and a file
\* that cannot be read returned endpoints, one of them made of a declaration
\* in the invalid file
C6_Witness ==
    /\ calls >= 1
    /\ \E k \in 1..Len(lastTree) : ~FilesOf(lastTree)[k].readable
    /\ \E i \in FromInvalidFiles : pattern_endpoints(url_patterns[i], viewsets) # <<>>

\* C7: no pass reads a file whose path contains an exclusion substring: a URL
\* declaration in a routing file under such a path contributes no endpoint.
C7_ExcludedEverywhere ==
    analyzer # None =>
        \A i \in 1..Len(url_patterns) :
            should_skip_file(FullPath(project_path, url_patterns[i].file))
                => pattern_endpoints(url_patterns[i], viewsets) = <<>>

---------------------------------------------------------------------------
(* Properties of the detector *)

\* The files of the tree that the import checks sample and can read.
SampledFiles == {f \in Range(Sample(FilesOf(tree))) : f.readable}

\* A line of s, after its leading white space, begins with the word.
LineBegins(s, word) ==
    \E i \in 1..Len(s) :
        /\ StartsWithAt(s, i, word)
        /\ \E b \in 1..i :
            /\ b = 1 \/ Char(s, b - 1) = "\n"
            /\ \A j \in b..(i - 1) : IsSpace(Char(s, j))

\* A file imports the module in one of the two statement forms.
Imports(f, module) ==
    LineBegins(f.text, "from " \o module) \/ LineBegins(f.text, "import " \o module)

\* The three signals of a Django project and the signal of a FastAPI one.
ManageSignal == InSeq("manage.py", tree)
SettingsSignal ==
    \E i \in 1..Len(tree) :
        \/ BaseName(tree[i]) = "settings.py"
        \/ /\ Len(Parts(tree[i])) >= 2
           /\ Parts(tree[i])[Len(Parts(tree[i])) - 1] = "settings"
DjangoImportSignal == \E f \in SampledFiles : Imports(f, "django")
FastAPIImportSignal == \E f \in SampledFiles : Imports(f, "fastapi")
DjangoSignal == ManageSignal \/ SettingsSignal \/ DjangoImportSignal

C9_DjangoFirst ==
    detected # None =>
        /\ DjangoSignal => detected = "django"
        /\ ~DjangoSignal => detected = "fastapi"

\* the detector has answered django for a tree in which a sampled file
\* imports fastapi
C9_Witness == detected = "django" /\ FastAPIImportSignal

\* C10: get_analyzer gives the tag fastapi a FastAPIAnalyzer and the tag
\* django a DjangoAnalyzer, bound to the project root, and for every other tag
\* raises the unsupported-framework error and creates no analyzer.
C10_TagToAnalyzer ==
    framework # None =>
        /\ framework = "fastapi" =>
                analyzer = "FastAPIAnalyzer" /\ project_path = root /\ error = None
        /\ framework = "django" =>
                analyzer = "DjangoAnalyzer" /\ project_path = root /\ error = None
        /\ framework \notin {"fastapi", "django"} =>
                error = "ValueError" /\ analyzer = None /\ project_path = None

\* get_analyzer has been given a differently-cased spelling
C10_Witness == framework = "Django" /\ error = "ValueError"

---------------------------------------------------------------------------
(* Single-pass extractor *)

\* The files of the last tree that an analyzer reads and parses: not under an
\* excluded path, readable, valid Python.
Analysed ==
    SelectSeq(FilesOf(lastTree), LAMBDA f :
        f.readable /\ f.parses /\ ~should_skip_file(FullPath(project_path, f.path)))

\* The definitions of a file at any depth, of one node type.
NodesOf(f, type) == SelectSeq(walk(f.body), LAMBDA n : n.type = type)

\* A verb marker: a call of an attribute named after an HTTP verb.
VerbMarker(d) ==
    /\ d.type = "Call"
    /\ d.sub[1].type = "Attribute"
    /\ d.sub[1].name \in {"get", "post", "put", "delete", "patch", "options", "head"}

\* A verb marker with a literal first positional argument.
LiteralMarker(d) == VerbMarker(d) /\ Len(d.sub) >= 2 /\ d.sub[2].type = "Constant"

\* A marker the extractor recognises: the literal is a non-empty path.
Recognised(d) == LiteralMarker(d) /\ d.sub[2].const = "str" /\ d.sub[2].s # ""

\* The recognised markers of a function, in decorator order.
Markers(fn) == SelectSeq(fn.decorator_list, Recognised)

\* The keywords of a marker that have a given name.
KeywordsNamed(d, name) == SelectSeq(d.kw, LAMBDA k : k.arg = name)

\* The literal elements of the tags lists of a marker.
TagsOf(d) ==
    LET lists == SelectSeq(KeywordsNamed(d, "tags"), LAMBDA k : k.value.type = "List")
    IN Flatten([i \in 1..Len(lists) |->
                  LET c == SelectSeq(lists[i].value.sub, LAMBDA e : e.type = "Constant")
                  IN [j \in 1..Len(c) |-> c[j].s]])

\* The literal status code of a marker, 200 without one.
StatusOf(d) ==
    LET codes == SelectSeq(KeywordsNamed(d, "status_code"),
                           LAMBDA k : k.value.type = "Constant")
    IN IF codes = <<>> \/ codes[1].value.n = 0 THEN 200 ELSE codes[1].value.n

\* The returned endpoints extracted from the definition at a line of a file.
EndpointsAt(path, lineno) ==
    SelectSeq(endpoints, LAMBDA e : e.file_path = path /\ e.line_number = lineno)

\* Whether endpoint e has the method, path, tags, status code and
\* response_model keyword of marker d.
TakenFrom(e, d) ==
    /\ e.method = Upper(d.sub[1].name)
    /\ e.path = d.sub[2].s
    /\ e.tags = TagsOf(d)
    /\ e.status_code = StatusOf(d)
    /\ LET models == KeywordsNamed(d, "response_model")
       IN models # <<>> => e.response_model = unparse(models[Len(models)].value)

\* C11: a function with one or more recognised verb markers yields exactly
\* one endpoint, whose method, path, tags, status code and response_model
\* keyword are those of the first recognised marker in decorator order.
C11_FirstMarkerWins ==
    (analyzer = "FastAPIAnalyzer" /\ calls >= 1) =>
        \A i \in 1..Len(Analysed) :
            \A fn \in Range(NodesOf(Analysed[i], "FunctionDef")) :
                Markers(fn) # <<>> =>
                    /\ Len(EndpointsAt(Analysed[i].path, fn.lineno)) = 1
                    /\ TakenFrom(EndpointsAt(Analysed[i].path, fn.lineno)[1], Markers(fn)[1])

\* an analysis returned the endpoint of a function that carries two
\* recognised markers of different verbs after a decorator that is no marker
C11_Witness ==
    /\ analyzer = "FastAPIAnalyzer"
    /\ calls >= 1
    /\ \E i \in 1..Len(Analysed) :
         \E fn \in Range(NodesOf(Analysed[i], "FunctionDef")) :
            /\ Len(Markers(fn)) >= 2
            /\ ~Recognised(fn.decorator_list[1])
            /\ Markers(fn)[1].sub[1].name # Markers(fn)[2].sub[1].name
            /\ EndpointsAt(Analysed[i].path, fn.lineno) # <<>>

\* A marker with neither a tags keyword nor a status_code keyword.
Plain(d) == KeywordsNamed(d, "tags") = <<>> /\ KeywordsNamed(d, "status_code") = <<>>

\* C12: an endpoint extracted from a route marker that has neither a tags
\* keyword nor a status_code keyword has no tag and the status code 200.
C12_MarkerDefaults ==
    (analyzer = "FastAPIAnalyzer" /\ calls >= 1) =>
        \A i \in 1..Len(Analysed) :
            \A fn \in Range(NodesOf(Analysed[i], "FunctionDef")) :
                (Markers(fn) # <<>> /\ Plain(Markers(fn)[1])) =>
                    \A e \in Range(EndpointsAt(Analysed[i].path, fn.lineno)) :
                        e.tags = <<>> /\ e.status_code = 200

\* an analysis returned, from one file, the endpoint of a marker without
\* keywords and the endpoint of a marker with both keywords
C12_Witness ==
    /\ analyzer = "FastAPIAnalyzer"
    /\ calls >= 1
    /\ \E i \in 1..Len(Analysed) :
         \E fn, gn \in Range(NodesOf(Analysed[i], "FunctionDef")) :
            /\ Markers(fn) # <<>> /\ Markers(gn) # <<>>
            /\ Markers(fn)[1].kw = <<>>
            /\ KeywordsNamed(Markers(gn)[1], "tags") # <<>>
            /\ KeywordsNamed(Markers(gn)[1], "status_code") # <<>>
            /\ EndpointsAt(Analysed[i].path, fn.lineno) # <<>>
            /\ EndpointsAt(Analysed[i].path, gn.lineno) # <<>>

\* The location the annotation text of a parameter gives it.
Location(text) ==
    IF Contains(text, "Path") THEN "path"
    ELSE IF Contains(text, "Body") THEN "body"
    ELSE IF Contains(text, "Header") THEN "header"
    ELSE "query"

\* The parameters of endpoint e that are named name.
Named(e, name) == SelectSeq(e.parameters, LAMBDA p : p.name = name)

\* Whether the path of endpoint e has a placeholder for parameter p.
Placeholder(e, p) == Contains(e.path, "{" \o p.name \o "}")

\* C13: the location of a parameter depends on the stringified annotation
\* alone: path if it contains "Path", else body if it contains "Body", else
\* header if it contains "Header", else query.  A parameter annotated with a
\* bare type name keeps that name as its type and stays query even when the
\* route path has a placeholder of its name; a parameter without annotation
\* is a query parameter of type "string".
C13_LocationFromAnnotation ==
    (analyzer = "FastAPIAnalyzer" /\ calls >= 1) =>
        /\ \A p \in Parameters : p.param_type = Location(p.data_type)
        /\ \A i \in 1..Len(Analysed) :
            \A fn \in Range(NodesOf(Analysed[i], "FunctionDef")) :
                \A e \in Range(EndpointsAt(Analysed[i].path, fn.lineno)) :
                    \A k \in 1..Len(fn.args) :
                        fn.args[k].arg \notin {"self", "cls"} =>
                            /\ Len(Named(e, fn.args[k].arg)) = 1
                            /\ fn.args[k].annotation = NoExpr =>
                                    /\ Named(e, fn.args[k].arg)[1].data_type = "string"
                                    /\ Named(e, fn.args[k].arg)[1].param_type = "query"
                            /\ fn.args[k].annotation.type = "Name" =>
                                    Named(e, fn.args[k].arg)[1].data_type
                                        = fn.args[k].annotation.name

\* an analysis returned parameters of the four locations, a query parameter
\* of a bare type whose name is a placeholder of the route path, and a
\* parameter without annotation
C13_Witness ==
    /\ analyzer = "FastAPIAnalyzer"
    /\ calls >= 1
    /\ {p.param_type : p \in Parameters} = {"path", "body", "header", "query"}
    /\ \E k \in 1..Len(endpoints) :
         \E p \in Range(endpoints[k].parameters) :
            /\ Placeholder(endpoints[k], p)
            /\ p.data_type = "int"
            /\ p.param_type = "query"
    /\ \E p \in Parameters : p.data_type = "string"

\* The function definitions of a file at any depth, synchronous or not.
FunctionNodes(f) ==
    SelectSeq(walk(f.body), LAMBDA n : n.type \in {"FunctionDef", "AsyncFunctionDef"})

\* C14: every function definition of a parsed file, at any nesting depth,
\* synchronous or asynchronous, that carries a verb marker with a literal
\* first positional argument yields an endpoint.
C14_EveryFunctionVisited ==
    (analyzer = "FastAPIAnalyzer" /\ calls >= 1) =>
        \A i \in 1..Len(Analysed) :
            \A fn \in Range(FunctionNodes(Analysed[i])) :
                (\E k \in 1..Len(fn.decorator_list) : LiteralMarker(fn.decorator_list[k]))
                    => EndpointsAt(Analysed[i].path, fn.lineno) # <<>>

---------------------------------------------------------------------------
(* Join pass of the multi-pass extractor *)

\* Whether a recorded view is a viewset: the record _extract_viewset stores
\* is the one that has actions.
IsViewset(v) == "actions" \in DOMAIN v

\* The declarations of one type whose target is a recorded view.
Joined(type) ==
    {i \in Matched : url_patterns[i].type = type}

\* C15: viewset-style endpoints are made of a router registration only when
\* its target is recorded as a viewset: a registration whose target is
\* recorded as a class view or a function view yields no endpoint, and
\* neither does a path declaration whose target is recorded as a viewset.
C15_JoinByKind ==
    analyzer = "DjangoAnalyzer" =>
        /\ \A i \in Joined("router") :
                ~IsViewset(viewsets[url_patterns[i].viewset])
                    => pattern_endpoints(url_patterns[i], viewsets) = <<>>
        /\ \A i \in Joined("path") :
                IsViewset(viewsets[url_patterns[i].view])
                    => pattern_endpoints(url_patterns[i], viewsets) = <<>>

\* The rows of the fixed table, in its order.
TableOrder == <<"list", "create", "retrieve", "update", "partial_update", "destroy">>

\* The router registrations joined with a viewset that defines none of the
\* standard actions.
JoinedBare ==
    {i \in Joined("router") :
        /\ IsViewset(viewsets[url_patterns[i].viewset])
        /\ viewsets[url_patterns[i].viewset].actions = <<>>}

\* Whether eps are the six rows of the table under the prefix, in order.
FullTable(eps, prefix) ==
    /\ Len(eps) = 6
    /\ \A k \in 1..6 :
        /\ eps[k].function_name = TableOrder[k]
        /\ eps[k].method = TableMethod(TableOrder[k])
        /\ eps[k].path = TablePath(prefix, TableOrder[k])

\* C16: for a router registration whose target is a recorded viewset that
\* defines none of the six standard actions, exactly six standard-action
\* endpoints are synthesized, one per row of the table, in the order list,
\* create, retrieve, update, partial_update, destroy.
C16_FullTableWithoutActions ==
    analyzer = "DjangoAnalyzer" =>
        \A i \in JoinedBare :
            FullTable(StandardOnly(pattern_endpoints(url_patterns[i], viewsets)),
                      url_patterns[i].prefix)

\* an analysis returned the endpoints of a registration whose viewset
\* defines no standard action, the last row of the table among them
C16_Witness ==
    /\ analyzer = "DjangoAnalyzer"
    /\ calls >= 1
    /\ \E i \in JoinedBare :
         \E k \in 1..Len(endpoints) :
            /\ endpoints[k].line_number = viewsets[url_patterns[i].viewset].line
            /\ endpoints[k].function_name = "destroy"
            /\ endpoints[k].path = "/" \o url_patterns[i].prefix \o "/{id}/"

\* The router registrations joined with a viewset.
JoinedViewsets == {i \in Joined("router") : IsViewset(viewsets[url_patterns[i].viewset])}

\* The custom actions recorded on the viewset registration i is joined with.
CustomActions(i) == viewsets[url_patterns[i].viewset].custom_actions

\* The endpoints the join makes of registration i for custom action c.
CustomOnly(i, c) ==
    SelectSeq(pattern_endpoints(url_patterns[i], viewsets),
              LAMBDA e : e.function_name = c.name /\ e.line_number = c.line)

\* The path of custom action c under a prefix.
CustomPath(prefix, c) ==
    IF c.detail THEN "/" \o prefix \o "/{id}/" \o c.name \o "/"
    ELSE "/" \o prefix \o "/" \o c.name \o "/"

\* The method definition a custom action was recorded from, and its marker.
ActionNode(v, c) ==
    CHOOSE n \in Range(walk((CHOOSE f \in ProjectFiles : f.path = v.file).body)) :
        n.type = "FunctionDef" /\ n.lineno = c.line
ActionMarker(v, c) ==
    SelectSeq(ActionNode(v, c).decorator_list,
              LAMBDA d : d.type = "Call" /\ d.sub[1].type = "Name" /\ d.sub[1].name = "action")[1]

\* Whether custom action c has the defaults where its marker has no keyword.
DefaultsWhereUnset(marker, c) ==
    /\ KeywordsNamed(marker, "methods") = <<>> => c.methods = <<"get">>
    /\ KeywordsNamed(marker, "detail") = <<>> => c.detail = FALSE
DefaultsKept(v, c) == DefaultsWhereUnset(ActionMarker(v, c), c)

\* Whether eps are one endpoint per entry of methods, in order, each at path.
OnePerEntry(eps, methods, path) ==
    /\ Len(eps) = Len(methods)
    /\ \A k \in 1..Len(methods) :
        /\ eps[k].method = Upper(methods[k])
        /\ eps[k].path = path

\* C17 (as stated): for each custom action recorded on a joined viewset
\* exactly one endpoint is synthesized, with path /<prefix>/{id}/<name>/ when
\* detail is true and /<prefix>/<name>/ otherwise, whatever the length of the
\* allowed-methods list.
C17_OnePerCustomAction ==
    analyzer = "DjangoAnalyzer" =>
        \A i \in JoinedViewsets :
            \A c \in Range(CustomActions(i)) :
                /\ Len(CustomOnly(i, c)) = 1
                /\ CustomOnly(i, c)[1].path = CustomPath(url_patterns[i].prefix, c)

\* C17 (amended): for each custom action recorded on a joined viewset one
\* endpoint is synthesized per entry of its allowed-methods list, in the
\* order of the list and with the entry in upper case as method, none when
\* the list is empty; each has the path /<prefix>/{id}/<name>/ when detail is
\* true and /<prefix>/<name>/ otherwise.  The list is [get] and detail is
\* false where the marker does not give them.
C17_OnePerAllowedMethod ==
    analyzer = "DjangoAnalyzer" =>
        \A i \in JoinedViewsets :
            \A c \in Range(CustomActions(i)) :
                /\ OnePerEntry(CustomOnly(i, c), c.methods,
                               CustomPath(url_patterns[i].prefix, c))
                /\ DefaultsKept(viewsets[url_patterns[i].viewset], c)

\* an analysis returned the two endpoints of a detail action that allows two
\* methods and the endpoint of an action with the default list, and none for
\* an action whose list is empty
C17_Witness ==
    /\ analyzer = "DjangoAnalyzer"
    /\ calls >= 1
    /\ \E i \in JoinedViewsets :
         \E c, d \in Range(CustomActions(i)) :
            /\ c.detail /\ Len(c.methods) = 2
            /\ \A k \in 1..2 : \E n \in 1..Len(endpoints) : endpoints[n] = CustomOnly(i, c)[k]
            /\ ~d.detail /\ d.methods = <<"get">>
            /\ KeywordsNamed(ActionMarker(viewsets[url_patterns[i].viewset], d), "methods") = <<>>
            /\ \E n \in 1..Len(endpoints) : endpoints[n] = CustomOnly(i, d)[1]
    /\ \E i \in JoinedViewsets :
         \E c \in Range(CustomActions(i)) : c.methods = <<>>

\* The path declarations written in shop/urls.py that name a view, with the
\* view each names: path('<p>', <module>.<fn>), path('<p>',
\* <module>.<Target>.as_view()), path('<p>', <Target>.as_view()) and
\* path('<p>', <fn>).
DeclaredPaths ==
    << [file |-> ShopUrls.path, path |-> "health/", target |-> "health"],
       [file |-> ShopUrls.path, path |-> "status/", target |-> "StatusView"],
       [file |-> ShopUrls.path, path |-> "internal/", target |-> "InternalView"],
       [file |-> ShopUrls.path, path |-> "ping/", target |-> "ping"] >>

\* The pattern the third pass records for a declaration whose captured
\* target is the view it names.
Captured(d) == [type |-> "path", path |-> d.path, view |-> d.target, file |-> d.file]

\* Whether eps are one endpoint per method recorded on view v, at /<p>.
OnePerMethod(eps, p, v) ==
    /\ Len(eps) = Len(v.methods)
    /\ \A k \in 1..Len(eps) :
        /\ eps[k].path = "/" \o p
        /\ eps[k].method = v.methods[k].method
        /\ eps[k].function_name = v.name

\* C18: for every path declaration whose target is a recorded class view or
\* function view, in any of the four forms, the captured target is the name
\* of the view and one endpoint with path /<p> is synthesized per HTTP method
\* recorded on the view.
C18_PathDeclarationJoin ==
    (analyzer = "DjangoAnalyzer" /\ calls >= 1) =>
        \A n \in 1..Len(DeclaredPaths) :
            LET d == DeclaredPaths[n]
            IN (/\ InSeq(d.file, lastTree)
                /\ d.target \in DOMAIN viewsets
                /\ ~IsViewset(viewsets[d.target]))
               => /\ InSeq(Captured(d), url_patterns)
                  /\ OnePerMethod(pattern_endpoints(Captured(d), viewsets), d.path,
                                  viewsets[d.target])
                  /\ \A k \in 1..Len(viewsets[d.target].methods) :
                        InSeq(pattern_endpoints(Captured(d), viewsets)[k], endpoints)

\* The URL prefix of a declaration: the prefix of a registration, the path of
\* a path declaration.
PrefixOf(pattern) == IF pattern.type = "router" THEN pattern.prefix ELSE pattern.path

\* The endpoints the join makes of declaration i.
JoinedEndpoints(i) == pattern_endpoints(url_patterns[i], viewsets)

\* Whether every endpoint of eps carries exactly the tags given.
AllTagged(eps, tags) == \A k \in 1..Len(eps) : eps[k].tags = tags

\* C19 (as stated): every endpoint the join makes, of a router registration
\* or of a path declaration, carries exactly one tag, the title-cased URL
\* prefix of the declaration.
C19_TaggedWithPrefix ==
    analyzer = "DjangoAnalyzer" =>
        \A i \in Matched :
            AllTagged(JoinedEndpoints(i), <<Title(PrefixOf(url_patterns[i]))>>)

\* C19 (amended): every endpoint the join makes carries exactly one tag: the
\* title-cased URL prefix of the registration for an endpoint made of a
\* router registration, standard or custom action alike, and the constant
\* "API" for an endpoint made of a path declaration.
C19_TaggedWithPrefixOrAPI ==
    analyzer = "DjangoAnalyzer" =>
        \A i \in Matched :
            AllTagged(JoinedEndpoints(i),
                      IF url_patterns[i].type = "router"
                      THEN <<Title(url_patterns[i].prefix)>>
                      ELSE <<"API">>)

\* an analysis returned a standard-action endpoint and a custom-action
\* endpoint of registrations and an endpoint of a path declaration; the
\* prefix order-items is tagged Order-Items
C19_Witness ==
    /\ analyzer = "DjangoAnalyzer"
    /\ calls >= 1
    /\ \E i \in Joined("router") :
         /\ url_patterns[i].prefix = "order-items"
         /\ \E e \in Range(JoinedEndpoints(i)) :
                e.function_name = "list" /\ e.tags = <<"Order-Items">> /\ InSeq(e, endpoints)
    /\ \E i \in JoinedViewsets :
         \E c \in Range(CustomActions(i)) :
            CustomOnly(i, c) # <<>> /\ InSeq(CustomOnly(i, c)[1], endpoints)
    /\ \E i \in Joined("path") :
         JoinedEndpoints(i) # <<>> /\ InSeq(JoinedEndpoints(i)[1], endpoints)

\* A required path parameter named id of integer type.
IdParameter ==
    [name |-> "id", param_type |-> "path", data_type |-> "int", required |-> TRUE,
     default |-> None, description |-> None]

\* An optional query parameter of integer type.
PageParameter(name) ==
    [name |-> name, param_type |-> "query", data_type |-> "int", required |-> FALSE,
     default |-> None, description |-> None]

\* Whether endpoint e of declaration i is a standard-action endpoint: it
\* carries the line of the view, a custom-action endpoint that of its method.
IsStandard(i, e) ==
    /\ url_patterns[i].type = "router"
    /\ e.line_number = viewsets[url_patterns[i].viewset].line
    /\ e.function_name \in Range(TableOrder)

\* C20: retrieve, update, partial_update and destroy endpoints have exactly
\* one parameter, a required path parameter id of integer type; list
\* endpoints have exactly the optional integer query parameters page and
\* page_size, in that order; create endpoints, custom-action endpoints and
\* path-declaration endpoints have no parameter.
C20_SynthesizedParameters ==
    analyzer = "DjangoAnalyzer" =>
        \A i \in Matched :
            \A e \in Range(JoinedEndpoints(i)) :
                e.parameters =
                    IF ~IsStandard(i, e) THEN <<>>
                    ELSE IF e.function_name \in {"retrieve", "update", "partial_update", "destroy"}
                    THEN <<IdParameter>>
                    ELSE IF e.function_name = "list"
                    THEN <<PageParameter("page"), PageParameter("page_size")>>
                    ELSE <<>>

\* an analysis returned standard-action endpoints of the six actions, a
\* custom-action endpoint and a path-declaration endpoint
C20_Witness ==
    /\ analyzer = "DjangoAnalyzer"
    /\ calls >= 1
    /\ \A a \in Range(TableOrder) :
         \E i \in Joined("router") :
            \E e \in Range(JoinedEndpoints(i)) :
                IsStandard(i, e) /\ e.function_name = a /\ InSeq(e, endpoints)
    /\ \E i \in JoinedViewsets :
         \E e \in Range(JoinedEndpoints(i)) : ~IsStandard(i, e) /\ InSeq(e, endpoints)
    /\ \E i \in Joined("path") :
         \E e \in Range(JoinedEndpoints(i)) : InSeq(e, endpoints)

---------------------------------------------------------------------------
(* Single-pass extractor: status code, models and parameters *)

\* The integer a status_code argument denotes: the literal, or the value of
\* the named constant of starlette.status.
Denoted(v) ==
    IF v.type = "Constant" THEN v.n
    ELSE IF v.type = "Attribute" /\ v.name = "HTTP_201_CREATED" THEN 201
    ELSE IF v.type = "Attribute" /\ v.name = "HTTP_204_NO_CONTENT" THEN 204
    ELSE 0

\* Whether endpoint e has the status code of marker d.
StatusKept(e, d) ==
    IF KeywordsNamed(d, "status_code") = <<>> THEN e.status_code = 200
    ELSE e.status_code = Denoted(KeywordsNamed(d, "status_code")[1].value)

\* C21: when the matched marker carries a status_code keyword the endpoint's
\* status code is the value of that argument, a literal integer or a named
\* constant such as status.HTTP_201_CREATED alike; it is 200 only when the
\* keyword is absent.
C21_ExplicitStatusCode ==
    (analyzer = "FastAPIAnalyzer" /\ calls >= 1) =>
        \A i \in 1..Len(Analysed) :
            \A fn \in Range(NodesOf(Analysed[i], "FunctionDef")) :
                Markers(fn) # <<>> =>
                    \A e \in Range(EndpointsAt(Analysed[i].path, fn.lineno)) :
                        StatusKept(e, Markers(fn)[1])

\* Whether a stringified type is taken for a request model.
Qualifies(text) ==
    /\ text # ""
    /\ IsUpper(Char(text, 1))
    /\ ~Contains(text, "Path")
    /\ ~Contains(text, "Query")

\* The annotated parameters of a function whose stringified type qualifies,
\* in declaration order.
Qualifying(fn) ==
    SelectSeq(fn.args, LAMBDA a :
        a.annotation # NoExpr /\ Qualifies(get_type_string(a.annotation)))

\* Whether a parameter is annotated with a type written with a lowercase
\* initial.
LowercaseTyped(a) ==
    a.annotation # NoExpr /\ IsLower(Char(unparse(a.annotation), 1))

\* Whether model is the type of the first of the qualifying parameters q,
\* absent without one, and that parameter is not of a lowercase-initial type.
RequestModelFrom(model, q) ==
    IF q = <<>> THEN model = None
    ELSE /\ model = get_type_string(q[1].annotation)
         /\ ~LowercaseTyped(q[1])

\* C22: request_model is the stringified type of the first parameter, in
\* declaration order, whose stringified type begins with an uppercase letter
\* and contains neither "Path" nor "Query", and is absent when no parameter
\* qualifies; a parameter annotated with a lowercase-initial type is never
\* the one the request model is taken from.
C22_RequestModelFromFirstCapitalised ==
    (analyzer = "FastAPIAnalyzer" /\ calls >= 1) =>
        \A i \in 1..Len(Analysed) :
            \A fn \in Range(NodesOf(Analysed[i], "FunctionDef")) :
                Markers(fn) # <<>> =>
                    \A e \in Range(EndpointsAt(Analysed[i].path, fn.lineno)) :
                        RequestModelFrom(e.request_model, Qualifying(fn))

\* The response_model keyword values of a marker.
ResponseKeywords(d) == KeywordsNamed(d, "response_model")

\* The source text of an annotation.
SourceText(x) == unparse(x)

\* The stringification of an annotation: its source text when it is a name,
\* a subscripted type or a dotted name, and "Any" for every other form.
TextOrAny(x) ==
    IF x.type \in {"Name", "Subscript", "Attribute"} THEN unparse(x) ELSE "Any"

\* Whether model is text: the text of the keyword when there is one, else of
\* the return annotation, and absent when there is neither.
ResponseModelIs(model, keywords, returns, keywordText, returnsText) ==
    IF keywords # <<>> THEN model = keywordText
    ELSE IF returns # NoExpr THEN model = returnsText
    ELSE model = None

Declared(fn) ==
    SelectSeq([k \in 1..Len(fn.args) |-> k], LAMBDA k : fn.args[k].arg \notin {"self", "cls"})

\* The first position of the trailing window of defaulted parameters.
WindowStart(fn) == Len(fn.args) - Len(fn.defaults) + 1

\* The text of a default: str() of a literal, the source text of an
\* expression.
DefaultText(x) == IF x.type = "Constant" THEN str_value(x) ELSE unparse(x)

\* Whether parameter p is the one declared at position k of fn.
DeclaredAt(p, fn, k) ==
    /\ p.name = fn.args[k].arg
    /\ p.required = (k < WindowStart(fn))
    /\ p.default = IF k < WindowStart(fn) THEN None
                   ELSE DefaultText(fn.defaults[k - WindowStart(fn) + 1])

\* Whether ps are the parameters declared at the positions ks, in order.
DeclaredInOrder(ps, fn, ks) ==
    /\ Len(ps) = Len(ks)
    /\ \A j \in 1..Len(ks) : DeclaredAt(ps[j], fn, ks[j])

\* C24: the parameters of an endpoint are the declared positional parameters
\* of the handler in declaration order without the receivers self and cls; a
\* parameter is optional exactly when its position among all declared
\* parameters, receivers included, lies in the trailing window as long as the
\* defaults, and its default is the one at the same offset of the window.
C24_ReceiversRemovedDefaultsAligned ==
    (analyzer = "FastAPIAnalyzer" /\ calls >= 1) =>
        \A i \in 1..Len(Analysed) :
            \A fn \in Range(NodesOf(Analysed[i], "FunctionDef")) :
                Markers(fn) # <<>> =>
                    \A e \in Range(EndpointsAt(Analysed[i].path, fn.lineno)) :
                        DeclaredInOrder(e.parameters, fn, Declared(fn))

\* an analysis returned the endpoint of a method whose receiver precedes two
\* defaulted parameters and the endpoint of a handler with a receiver name
\* inside the window of defaults
C24_Witness ==
    /\ analyzer = "FastAPIAnalyzer"
    /\ calls >= 1
    /\ \E i \in 1..Len(Analysed) :
         \E fn, gn \in Range(NodesOf(Analysed[i], "FunctionDef")) :
            /\ Markers(fn) # <<>> /\ Markers(gn) # <<>>
            /\ fn.args # <<>> /\ gn.defaults # <<>>
            /\ fn.args[1].arg = "self" /\ Len(fn.defaults) = Len(fn.args) - 1
            /\ \E k \in WindowStart(gn)..(Len(gn.args) - 1) : gn.args[k].arg = "cls"
            /\ \E e \in Range(EndpointsAt(Analysed[i].path, fn.lineno)) :
                    Len(e.parameters) = Len(fn.args) - 1
            /\ \E e \in Range(EndpointsAt(Analysed[i].path, gn.lineno)) :
                    /\ e.parameters # <<>>
                    /\ e.parameters[Len(e.parameters)].default
                            = DefaultText(gn.defaults[Len(gn.defaults)])

---------------------------------------------------------------------------
(* Multi-pass extractor: the namespace of view records *)

\* The kind of view a definition is, None for a definition that is no view.
KindOf(n) ==
    IF n.type = "ClassDef" /\ get_view_type(n.bases) = "viewset" THEN "viewset"
    ELSE IF n.type = "ClassDef" /\ get_view_type(n.bases) = "apiview" THEN "class"
    ELSE IF n.type = "FunctionDef" /\ has_api_view_decorator(n) THEN "function"
    ELSE None

\* The view definitions of a file, in the order the walk visits them.
ViewsIn(f) ==
    LET defs == SelectSeq(walk(f.body), LAMBDA n : KindOf(n) # None)
    IN [k \in 1..Len(defs) |->
            [name |-> defs[k].name, file |-> f.path, line |-> defs[k].lineno,
             kind |-> KindOf(defs[k])]]

\* The files the second pass of the last run visited.
ViewFiles ==
    SelectSeq(Analysed, LAMBDA f : ~Contains(FullPath(project_path, f.path), "admin"))

\* The view definitions the last run visited, in order.
Visited == Flatten([i \in 1..Len(ViewFiles) |-> ViewsIn(ViewFiles[i])])

\* The positions of the definitions visited after position j under the
\* same name.
Later(defs, j) == {k \in (j + 1)..Len(defs) : defs[k].name = defs[j].name}

\* Whether record v was made of definition d.
RecordOf(v, d) ==
    /\ v.name = d.name
    /\ v.file = d.file
    /\ v.line = d.line
    /\ IsViewset(v) <=> d.kind = "viewset"

\* Whether no endpoint of eps was made of the view defined at a line of a
\* file.
NoneFrom(eps, d) ==
    \A k \in 1..Len(eps) : ~(eps[k].file_path = d.file /\ eps[k].line_number = d.line)

\* Whether the endpoints the join makes of the declarations that target a
\* name are returned and come from one file.
JoinedTo(name, file) ==
    \A i \in 1..Len(url_patterns) :
        Target(url_patterns[i]) = name =>
            \A e \in Range(pattern_endpoints(url_patterns[i], viewsets)) :
                InSeq(e, endpoints) /\ e.file_path = file

\* C25: when two view definitions visited in one run have the same name, in
\* the same file or in different files, of the same kind or of different
\* kinds, the record kept under the name is that of the definition visited
\* last, every declaration that targets the name is joined to that record,
\* and no returned endpoint is made of a definition visited before it.
C25_LastDefinitionWins ==
    (analyzer = "DjangoAnalyzer" /\ calls >= 1) =>
        \A j \in 1..Len(Visited) :
            IF Later(Visited, j) = {}
            THEN (\E k \in 1..(j - 1) : Visited[k].name = Visited[j].name) =>
                    /\ Visited[j].name \in DOMAIN viewsets
                    /\ RecordOf(viewsets[Visited[j].name], Visited[j])
                    /\ JoinedTo(Visited[j].name, Visited[j].file)
            ELSE NoneFrom(endpoints, Visited[j])

\* an analysis visited a name defined by two viewsets of different files, a
\* name defined by a class view and then by a viewset, and a name defined by
\* function views twice in one file, and returned endpoints of the last of each
C25_Witness ==
    /\ analyzer = "DjangoAnalyzer"
    /\ calls >= 1
    /\ \E a, b \in 1..Len(Visited) :
         /\ b \in Later(Visited, a) /\ Later(Visited, b) = {}
         /\ Visited[a].kind = "viewset" /\ Visited[b].kind = "viewset"
         /\ Visited[a].file # Visited[b].file
         /\ ~NoneFrom(endpoints, Visited[b])
    /\ \E a, b \in 1..Len(Visited) :
         /\ b \in Later(Visited, a) /\ Later(Visited, b) = {}
         /\ Visited[a].kind = "class" /\ Visited[b].kind = "viewset"
         /\ ~NoneFrom(endpoints, Visited[b])
    /\ \E a, b \in 1..Len(Visited) :
         /\ b \in Later(Visited, a) /\ Later(Visited, b) = {}
         /\ Visited[a].kind = "function" /\ Visited[b].kind = "function"
         /\ Visited[a].file = Visited[b].file
         /\ ~NoneFrom(endpoints, Visited[b])

---------------------------------------------------------------------------
(* The location of the project root *)

\* A new instance of the multi-pass extractor.
Fresh == [url_patterns |-> <<>>, viewsets |-> <<>>, serializers |-> <<>>]

\* What the first analysis of a new instance returns for a tree checked out
\* at AppRoot.
AtAppRoot(class, t) ==
    IF class = "FastAPIAnalyzer" THEN fastapi_analyze(FilesOf(t), AppRoot)
    ELSE django_analyze(Fresh, FilesOf(t), AppRoot).endpoints

\* C26: exclusion depends on the path of a file relative to the project root
\* alone: the first analysis of a tree returns the same endpoints wherever
\* the root lies, in particular the ones it returns for the tree at AppRoot.
C26_RootIndependent ==
    (analyzer # None /\ calls = 1) => endpoints = AtAppRoot(analyzer, lastTree)

---------------------------------------------------------------------------
(* The commands when no endpoint is found *)

\* C27: when analyze() returns no endpoint, the commands analyze and generate
\* end with exit status 0, write no analysis file and start no
\* documentation stage.
C27_NoEndpointsExitsZero ==
    (cli.command # None /\ cli.ended /\ error = None /\ calls = 1
        /\ endpoints = <<>>)
        => cli.exit = 0 /\ ~cli.saved /\ ~cli.docs

---------------------------------------------------------------------------
(* Detection followed by the registry *)

\* The analyzer classes of the registry.
AnalyzerClasses == {"FastAPIAnalyzer", "DjangoAnalyzer"}

---------------------------------------------------------------------------
(* The order of the review steps *)

\* The services review has called, in order.
ServicesCalled == [i \in 1..Len(review.calls) |-> review.calls[i].service]

\* What review returns when the critique passes.
Unchanged == [passed |-> TRUE, content |-> review.doc_content]

\* C29: review calls the critique service exactly once; it calls the refine
\* service, once and after the critique, if and only if the critique does not
\* contain "STATUS: PASS"; it returns (True, the input document) when the
\* critique contains the mark and (False, the refine result) otherwise; a
\* critique whose API call failed gives (True, the input document) with no
\* refine call.
C29_CritiqueOnceRefineIffNotPassed ==
    review.pc # None =>
        /\ review.pc = "critique" => ServicesCalled = <<>>
        /\ review.pc = "check" => ServicesCalled = <<"critique">>
        /\ review.pc = "returned" =>
            /\ Contains(review.critique, PassMark) =>
                    ServicesCalled = <<"critique">> /\ review.result = Unchanged
            /\ ~Contains(review.critique, PassMark) =>
                    /\ ServicesCalled = <<"critique", "refine">>
                    /\ review.result =
                        [passed |-> FALSE,
                         content |-> IF review.calls[2].failed
                                     THEN review.doc_content
                                     ELSE review.calls[2].reply]
            /\ review.calls[1].failed =>
                    ServicesCalled = <<"critique">> /\ review.result = Unchanged

\* review has returned after a critique whose API call failed
C29_Witness ==
    /\ review.pc = "returned"
    /\ review.calls[1].failed
    /\ review.result.passed
    /\ review.doc_content # ""

---------------------------------------------------------------------------
(* Multi-pass extractor: the serializer pass *)

\* Serializer records an instance may hold before a run.
SerializerRecords ==
    {<<>>,
     [OrderSerializer |-> [fields |-> <<"id">>, file |-> "orders/serializers.py"]]}

\* Whether the first pass alone reads a file: it holds no view definition
\* and is no routing file.
SerializersOnly(f, pp) ==
    /\ Contains(FullPath(pp, f.path), "serializers")
    /\ ~is_urls_file(f)
    /\ f.parses => ViewsIn(f) = <<>>

\* The files of a walk without those the first pass alone reads.
ViewAndRoutingFiles(files, pp) == SelectSeq(files, LAMBDA f : ~SerializersOnly(f, pp))

\* Whether a statement of a class body assigns a name to serializer_class.
AssignsSerializerClass(item) ==
    /\ item.type = "Assign"
    /\ \E k \in 1..Len(item.targets) :
            item.targets[k].type = "Name" /\ item.targets[k].name = "serializer_class"
    /\ item.value.type = "Name"

\* The name the first such statement of a class body assigns, None without one.
SerializerAssigned(body) ==
    IF \A k \in 1..Len(body) : ~AssignsSerializerClass(body[k]) THEN None
    ELSE body[CHOOSE k \in 1..Len(body) :
                /\ AssignsSerializerClass(body[k])
                /\ \A j \in 1..(k - 1) : ~AssignsSerializerClass(body[j])].value.name

\* The class definition a viewset record was made of.
ClassOf(v) ==
    CHOOSE n \in Range(walk((CHOOSE f \in Disk : f.path = v.file).body)) :
        n.type = "ClassDef" /\ n.name = v.name /\ n.lineno = v.line

\* Whether a returned endpoint is a standard-action endpoint made of a
\* viewset record.
StandardOf(e, v) ==
    /\ IsViewset(v)
    /\ e.file_path = v.file
    /\ e.line_number = v.line
    /\ InSeq(e.function_name, action_keys)

\* Whether every returned standard-action endpoint names, as both models,
\* what the class of its viewset assigns to serializer_class.
NamedAsAssigned ==
    \A k \in 1..Len(endpoints) :
        \A n \in DOMAIN viewsets :
            StandardOf(endpoints[k], viewsets[n]) =>
                /\ endpoints[k].request_model = SerializerAssigned(ClassOf(viewsets[n]).body)
                /\ endpoints[k].response_model = endpoints[k].request_model

\* What a run returns from an instance that holds the serializer records s,
\* over the view and routing files of the walk alone.
ReturnedWith(s) ==
    django_analyze([url_patterns |-> url_patterns, viewsets |-> viewsets,
                    serializers |-> s],
                   ViewAndRoutingFiles(rglob(project_path), project_path),
                   project_path).endpoints

\* C30: the serializer pass has no influence on the result: a run returns the
\* same endpoints whatever serializers the first pass records, none included,
\* and an endpoint's request_model and response_model are the name assigned to
\* the viewset's serializer_class even when no serializer of that name is
\* recorded.
C30_SerializersWithoutInfluence ==
    /\ []((analyzer = "DjangoAnalyzer" /\ calls >= 1) => NamedAsAssigned)
    /\ [][(analyzer = "DjangoAnalyzer" /\ calls' = calls + 1) =>
            \A s \in SerializerRecords : endpoints' = ReturnedWith(s)]_vars

\* a run that recorded a serializer has returned an endpoint that names a
\* serializer it did not record
C30_Witness ==
    /\ analyzer = "DjangoAnalyzer"
    /\ calls >= 1
    /\ "ProductSerializer" \in DOMAIN serializers
    /\ "OrderSerializer" \notin DOMAIN serializers
    /\ \E k \in 1..Len(endpoints) : endpoints[k].request_model = "OrderSerializer"

====
